---- MODULE Spec2Model ----
(***************************************************************************)
(* Orchestration Manager of src/core/orchestration/orchestration_manager.py *)
(*                                                                         *)
(* The orchestrator is an asyncio object: code between two awaits runs     *)
(* atomically, and the only suspension point of execute_task is the await  *)
(* of the agent handle (line 110).  Every action below is one such atomic  *)
(* stretch of code.  The agent handles are external collaborators: a call  *)
(* returns a successful result, returns a failed result, or raises.        *)
(***************************************************************************)
EXTENDS Integers, Sequences, FiniteSets, TLC

(***************************************************************************)
(* Bounds of the model                                                     *)
(***************************************************************************)
\* longest workflow handed to orchestrate_workflow
MaxSteps == 3
\* number of direct execute_task invocations in one behaviour
MaxCalls == 3
\* longest workflow run while other callers use the orchestrator
MaxOpsSteps == 2
\* direct execute_task invocations made while a workflow may be running
MaxOpsCalls == 1
\* largest limit handed to get_execution_history
MaxLimit == 2
\* entries of active_connections
MaxConnections == 2
\* calls of broadcast and send_to_topic
MaxSends == 1
\* runs of one workflow definition
MaxRuns == 2

(***************************************************************************)
(* Enumerations and literals                                               *)
(***************************************************************************)
AgentType_Seven ==
    {"report", "monitoring", "its", "db_extract",
     "change_mgmt", "biz_support", "sop"}

\* class AgentType, lines 31-40
AgentType ==
    {"report", "monitoring", "its", "db_extract",
     "change_mgmt", "biz_support", "sop", "infra"}

OrchestrationMode == {"sequential", "parallel", "conditional", "delegated"}

\* the callers (coroutines) that may hold an invocation of the orchestrator
Callers == {"c1", "c2"}

\* agent identifiers the inputs are drawn from: two registered types and one
\* literal that is no member of AgentType
InputAgents == {"monitoring", "sop", "unknown_type"}

\* agent types a direct execute_task call is made with: every registered
\* type and one value that is no key of the registry
TaskAgents == AgentType \cup {"unknown_type"}

\* behaviours of an agent handle
Outcomes == {"success", "failure", "raise"}

\* a key that a dict does not hold
NoKey == "<missing>"
\* str(e) of an exception raised by an agent handle
HandleExceptionMsg == "handle raised"
\* str(e) of the ValueError of AgentType(step["agent"])
InvalidAgentMsg == "not a valid AgentType"

\* the empty dict (and the None default of the context parameter: both falsy)
EmptyCtx == [a \in {} |-> 0]

\* task["context"] of a task map that has no such key.  `value` is the
\* content of the dict the key is bound to, `live` tells that the dict is the
\* workflow_context of a run still in progress, which goes on writing to it
NoContext == [present |-> FALSE, value |-> EmptyCtx, live |-> FALSE]

\* the value self.agents.get() gives for a key it does not hold
NoAgent == "<none>"

NoReturn == [kind |-> "none"]
NoCall   == [op |-> "none", inv |-> 0]

\* the websockets of the clients and the topics they subscribe to
Sockets == {"w1", "w2"}
Topics  == {"tasks", "agents"}

\* self.subscriptions = {}
NoSubscriptions == [t \in {} |-> <<>>]

\* no broadcast or send_to_topic has been called
NoSender ==
    [op |-> "none", pc |-> "idle", n |-> 0, topic |-> NoKey, pos |-> 0,
     target |-> NoKey, disconnected |-> <<>>, initial |-> {}]

VARIABLES
    agents,             \* self.agents: agent type -> handle
    execution_history,  \* self.execution_history
    handle_calls,       \* calls received by the agent handles, in call order
    ncalls,             \* invocations of the coroutines made so far
    pc,                 \* per caller: where its invocation is suspended
    call,               \* per caller: the invocation and its arguments
    tasks,              \* per caller: the task maps it handed in (mutable dicts)
    idx,                \* per caller: loop position of the workflow
    results,            \* per caller: local `results`
    workflow_context,   \* per caller: local `workflow_context`
    par,                \* per caller: the coroutines handed to asyncio.gather
    ret,                \* per caller: what the invocation gave back
    active_connections, \* ConnectionManager.active_connections
    subscriptions,      \* ConnectionManager.subscriptions: topic -> list
    endpoint,           \* per websocket: where its websocket_endpoint is
    sender,             \* the broadcast or send_to_topic coroutine
    attempts,           \* the send_text calls the sender made, in call order
    gone                \* websockets whose latest manager call was disconnect

\* the state of the orchestration manager
omvars == <<agents, execution_history, handle_calls, ncalls, pc, call, tasks,
            idx, results, workflow_context, par, ret>>

\* the state of the websocket connection manager (api/websocket.py)
wsvars == <<active_connections, subscriptions, endpoint, sender, attempts,
            gone>>

vars == <<omvars, wsvars>>

(***************************************************************************)
(* Python values that a condition compares (lines 448-454)                 *)
(***************************************************************************)
PyNone    == [t |-> "none", n |-> 0, s |-> ""]
PyBool(b) == [t |-> "bool", n |-> IF b THEN 1 ELSE 0, s |-> ""]
PyInt(n)  == [t |-> "int", n |-> n, s |-> ""]
PyStr(s)  == [t |-> "str", n |-> 0, s |-> s]

\* Python's ==: bool is a subclass of int, so True == 1 and False == 0
PyEq(x, y) ==
    IF x.t \in {"bool", "int"} /\ y.t \in {"bool", "int"}
    THEN x.n = y.n
    ELSE x.t = y.t /\ x.s = y.s

(***************************************************************************)
(* Workflow inputs                                                         *)
(***************************************************************************)
\* step.get("condition") of a step that has none
NoCondition ==
    [type |-> "none", agent |-> NoKey, field |-> NoKey, value |-> PyNone]

AgentSuccess(a) ==
    [type |-> "agent_success", agent |-> a, field |-> NoKey, value |-> PyNone]

FieldEquals(a, f, v) ==
    [type |-> "field_equals", agent |-> a, field |-> f, value |-> v]

\* a condition whose type is neither agent_success nor field_equals
UnknownKind ==
    [type |-> "agent_failed", agent |-> "monitoring", field |-> NoKey,
     value |-> PyNone]

\* the conditions the workflows of the model are gated with
InputConditions == {NoCondition, AgentSuccess("monitoring")}

\* the i-th step of a workflow: its name and its task are its own, the task
\* map is fresh (it has no "context" key yet)
StepsAt(i, agentSet, stopSet, condSet) ==
    [name : {i}, agent : agentSet, task : {[type |-> i]},
     stop_on_failure : stopSet, condition : condSet]

RECURSIVE WorkflowsOfLen(_, _, _, _)
WorkflowsOfLen(n, agentSet, stopSet, condSet) ==
    IF n = 0 THEN {<<>>}
    ELSE {Append(wf, st) :
            wf \in WorkflowsOfLen(n - 1, agentSet, stopSet, condSet),
            st \in StepsAt(n, agentSet, stopSet, condSet)}

\* the workflows handed in under a mode; a field the mode's branch never
\* reads keeps its default
WorkflowsFor(mode) ==
    UNION {WorkflowsOfLen(n, InputAgents,
                          IF mode \in {"sequential", "conditional"}
                          THEN BOOLEAN ELSE {FALSE},
                          IF mode = "conditional"
                          THEN InputConditions ELSE {NoCondition}) :
           n \in 0..MaxSteps}

FreshTasks(wf) ==
    [i \in 1..Len(wf) |-> [type |-> wf[i].task.type, context |-> NoContext]]

(***************************************************************************)
(* Agent handles (external)                                                *)
(***************************************************************************)
\* the map an agent hands back; the payload identifies the task it worked on
HandleResult(outcome, task) ==
    [success    |-> (outcome = "success"),
     error      |-> IF outcome = "success" THEN NoKey ELSE "agent failed",
     agent_type |-> NoKey,
     data       |-> task.type]

(***************************************************************************)
(* execute_task, lines 76-135                                              *)
(***************************************************************************)
Lookup_Fallback(agent_type) ==
    IF agent_type \in DOMAIN agents THEN agents[agent_type]
    ELSE agents["biz_support"]

\* self.agents.get(agent_type)
Lookup(agent_type) ==
    IF agent_type \in DOMAIN agents THEN agents[agent_type] ELSE NoAgent

NotFoundResult(agent_type) ==
    [success |-> FALSE, error |-> "Agent not found",
     agent_type |-> NoKey, data |-> 0]

\* if context: task["context"] = context
AttachContext(task_context, context) ==
    IF context # EmptyCtx
    THEN [present |-> TRUE, value |-> context, live |-> TRUE]
    ELSE task_context

\* the context an agent finds in the task it is called with
Visible(task_context) ==
    IF task_context.present THEN task_context.value ELSE EmptyCtx

ExecutionRecord(agent_type, task, result) ==
    [agent_type |-> agent_type,
     task_type  |-> task.type,
     success    |-> result.success]

ExceptHandler_Reraise(agent_type, msg) ==
    [kind  |-> "raise",
     value |-> [success |-> FALSE, error |-> msg,
                agent_type |-> agent_type, data |-> 0]]

\* except Exception as e: return {...}
ExceptHandler(agent_type, msg) ==
    [kind  |-> "return",
     value |-> [success |-> FALSE, error |-> msg,
                agent_type |-> agent_type, data |-> 0]]

\* how execute_task completes once the handle call is over
Completion(agent_type, task, outcome) ==
    IF outcome = "raise"
    THEN ExceptHandler(agent_type, HandleExceptionMsg)
    ELSE [kind |-> "return", value |-> HandleResult(outcome, task)]

HistoryAfter_Evict(history, agent_type, task, outcome) ==
    IF outcome = "raise"
    THEN history
    ELSE Append(IF Len(history) >= 2 THEN Tail(history) ELSE history,
                ExecutionRecord(agent_type, task, HandleResult(outcome, task)))

\* self.execution_history.append(execution_record) is reached only when the
\* await of the handle returned
HistoryAfter(history, agent_type, task, outcome) ==
    IF outcome = "raise"
    THEN history
    ELSE Append(history,
                ExecutionRecord(agent_type, task, HandleResult(outcome, task)))

\* the entry of handle_calls for a handle entered with `task`
HandleCall(c, inv, agent_type, task, task_context) ==
    [caller  |-> c, inv |-> inv, agent |-> agent_type, task |-> task.type,
     context |-> Visible(task_context), outcome |-> "pending"]

\* index in handle_calls of the pending call of caller c for `task_type`
PendingCall(c, task_type) ==
    CHOOSE k \in 1..Len(handle_calls) :
        /\ handle_calls[k].caller = c
        /\ handle_calls[k].task = task_type
        /\ handle_calls[k].outcome = "pending"

Settle(hc, k, outcome) == [hc EXCEPT ![k].outcome = outcome]

Init ==
    /\ agents = [a \in AgentType |-> a]
    /\ execution_history = <<>>
    /\ handle_calls = <<>>
    /\ ncalls = 0
    /\ pc = [c \in Callers |-> "idle"]
    /\ call = [c \in Callers |-> NoCall]
    /\ tasks = [c \in Callers |-> <<>>]
    /\ idx = [c \in Callers |-> 0]
    /\ results = [c \in Callers |-> <<>>]
    /\ workflow_context = [c \in Callers |-> EmptyCtx]
    /\ par = [c \in Callers |-> <<>>]
    /\ ret = [c \in Callers |-> NoReturn]
    /\ active_connections = <<>>
    /\ subscriptions = NoSubscriptions
    /\ endpoint = [w \in Sockets |-> "new"]
    /\ sender = NoSender
    /\ attempts = <<>>
    /\ gone = {}

(***************************************************************************)
(* Direct invocations of execute_task (api/routes/agents.py line 136 hands *)
(* in a fresh task map and no context)                                     *)
(***************************************************************************)
DirectTask == [type |-> 0]

\* lines 94-100: no handle for the agent type
ExecuteTaskNotFound(c, agent_type) ==
    /\ pc[c] \in {"idle", "done"}
    /\ ncalls < MaxCalls
    /\ Lookup(agent_type) = NoAgent
    /\ ncalls' = ncalls + 1
    /\ call' = [call EXCEPT ![c] =
                  [op |-> "execute_task", inv |-> ncalls + 1,
                   agent_type |-> agent_type]]
    /\ tasks' = [tasks EXCEPT ![c] = <<[type |-> 0, context |-> NoContext]>>]
    /\ ret' = [ret EXCEPT ![c] =
                 [kind |-> "return", value |-> NotFoundResult(agent_type)]]
    /\ pc' = [pc EXCEPT ![c] = "done"]
    /\ UNCHANGED <<wsvars, agents, execution_history, handle_calls, idx, results,
                   workflow_context, par>>

\* lines 94-110: the handle is entered and execute_task suspends
ExecuteTaskDispatch(c, agent_type) ==
    /\ pc[c] \in {"idle", "done"}
    /\ ncalls < MaxCalls
    /\ Lookup(agent_type) # NoAgent
    /\ ncalls' = ncalls + 1
    /\ call' = [call EXCEPT ![c] =
                  [op |-> "execute_task", inv |-> ncalls + 1,
                   agent_type |-> agent_type]]
    /\ LET tc == AttachContext(NoContext, EmptyCtx) IN
         /\ tasks' = [tasks EXCEPT ![c] = <<[type |-> 0, context |-> tc]>>]
         /\ handle_calls' = Append(handle_calls,
                HandleCall(c, ncalls + 1, agent_type, DirectTask, tc))
    /\ ret' = [ret EXCEPT ![c] = NoReturn]
    /\ pc' = [pc EXCEPT ![c] = "task_await"]
    /\ UNCHANGED <<wsvars, agents, execution_history, idx, results,
                   workflow_context, par>>

\* lines 110-135: the handle call is over, by return or by exception
ExecuteTaskComplete(c, outcome) ==
    /\ pc[c] = "task_await"
    /\ LET a == call[c].agent_type
           k == PendingCall(c, 0) IN
         /\ handle_calls' = Settle(handle_calls, k, outcome)
         /\ execution_history' =
                HistoryAfter(execution_history, a, DirectTask, outcome)
         /\ ret' = [ret EXCEPT ![c] = Completion(a, DirectTask, outcome)]
    /\ pc' = [pc EXCEPT ![c] = "done"]
    /\ UNCHANGED <<wsvars, agents, ncalls, call, tasks, idx, results,
                   workflow_context, par>>

(***************************************************************************)
(* _evaluate_condition, lines 426-457                                      *)
(***************************************************************************)
\* agent_result.get(field) of a result map
DictGet(result, field) ==
    CASE field = "success"    -> PyBool(result.success)
      [] field = "error"      -> IF result.error = NoKey THEN PyNone
                                 ELSE PyStr(result.error)
      [] field = "agent_type" -> IF result.agent_type = NoKey THEN PyNone
                                 ELSE PyStr(result.agent_type)
      [] field = "data"       -> PyInt(result.data)
      [] OTHER                -> PyNone

EvaluateCondition_MissingPasses(condition, context) ==
    CASE condition.type = "agent_success" ->
            IF condition.agent \in DOMAIN context
            THEN context[condition.agent].success
            ELSE TRUE
      [] condition.type = "field_equals" ->
            IF condition.agent \in DOMAIN context
            THEN PyEq(DictGet(context[condition.agent], condition.field),
                      condition.value)
            ELSE PyEq(PyNone, condition.value)
      [] OTHER -> TRUE

EvaluateCondition_FailClosed(condition, context) ==
    CASE condition.type = "agent_success" ->
            IF condition.agent \in DOMAIN context
            THEN context[condition.agent].success
            ELSE FALSE
      [] condition.type = "field_equals" ->
            IF condition.agent \in DOMAIN context
            THEN PyEq(DictGet(context[condition.agent], condition.field),
                      condition.value)
            ELSE PyEq(PyNone, condition.value)
      [] OTHER -> FALSE

EvaluateCondition(condition, context) ==
    CASE condition.type = "agent_success" ->
            IF condition.agent \in DOMAIN context
            THEN context[condition.agent].success
            ELSE FALSE
      [] condition.type = "field_equals" ->
            IF condition.agent \in DOMAIN context
            THEN PyEq(DictGet(context[condition.agent], condition.field),
                      condition.value)
            ELSE PyEq(PyNone, condition.value)
      [] OTHER -> TRUE

\* one evaluation of a condition against a context (line 232 is the call)
EvaluateConditionCall(c, condition, context) ==
    /\ pc[c] \in {"idle", "done"}
    /\ call' = [call EXCEPT ![c] =
                  [op |-> "_evaluate_condition", inv |-> 0,
                   condition |-> condition, context |-> context]]
    /\ ret' = [ret EXCEPT ![c] =
                 [kind  |-> "return",
                  value |-> EvaluateCondition(condition, context)]]
    /\ pc' = [pc EXCEPT ![c] = "done"]
    /\ UNCHANGED <<wsvars, agents, execution_history, handle_calls, ncalls, tasks,
                   idx, results, workflow_context, par>>

(***************************************************************************)
(* orchestrate_workflow, lines 137-279                                     *)
(***************************************************************************)
WorkflowResult_OverRequested(wf, mode, res, ctx) ==
    LET success_count ==
            Cardinality({k \in 1..Len(res) : res[k].result.success})
    IN  [kind  |-> "return",
         value |-> [success          |-> (success_count = Len(wf)),
                    mode             |-> mode,
                    total_steps      |-> Len(wf),
                    successful_steps |-> success_count,
                    results          |-> res,
                    workflow_context |-> ctx]]

WorkflowResult_LastStep(wf, mode, res, ctx) ==
    LET success_count ==
            Cardinality({k \in 1..Len(res) : res[k].result.success})
    IN  [kind  |-> "return",
         value |-> [success          |-> \/ Len(res) = 0
                                         \/ res[Len(res)].result.success,
                    mode             |-> mode,
                    total_steps      |-> Len(wf),
                    successful_steps |-> success_count,
                    results          |-> res,
                    workflow_context |-> ctx]]

WorkflowResult_TotalOfSuccesses(wf, mode, res, ctx) ==
    LET success_count ==
            Cardinality({k \in 1..Len(res) : res[k].result.success})
    IN  [kind  |-> "return",
         value |-> [success          |-> (success_count = Len(res)),
                    mode             |-> mode,
                    total_steps      |-> success_count,
                    successful_steps |-> success_count,
                    results          |-> res,
                    workflow_context |-> ctx]]

\* lines 258-272
WorkflowResult(wf, mode, res, ctx) ==
    LET success_count ==
            Cardinality({k \in 1..Len(res) : res[k].result.success})
    IN  [kind  |-> "return",
         value |-> [success          |-> (success_count = Len(res)),
                    mode             |-> mode,
                    total_steps      |-> Len(wf),
                    successful_steps |-> success_count,
                    results          |-> res,
                    workflow_context |-> ctx]]

\* lines 274-279
WorkflowError(msg) ==
    [kind |-> "return", value |-> [success |-> FALSE, error |-> msg]]

StepResult(step, agent, result) ==
    [step |-> step.name, agent |-> agent, result |-> result]

ContextAfter_Always(ctx, agent, result) ==
    [a \in DOMAIN ctx \cup {agent} |-> IF a = agent THEN result ELSE ctx[a]]

\* if task_result.get("success"): workflow_context[agent_type.value] = task_result
ContextAfter(ctx, agent, result) ==
    IF result.success
    THEN [a \in DOMAIN ctx \cup {agent} |->
            IF a = agent THEN result ELSE ctx[a]]
    ELSE ctx

StopOnFailure_Never(step, result) == FALSE

\* the loop ends at any failed step, whatever its flag
StopOnFailure_Always(step, result) == ~result.success

\* if not task_result.get("success") and step.get("stop_on_failure", False)
StopOnFailure(step, result) ==
    ~result.success /\ step.stop_on_failure

\* every task map that was given the workflow_context dict of the run holds
\* the dict itself, so a later write to the dict shows in the task map
Realias(tks, ctx) ==
    [j \in DOMAIN tks |->
        IF tks[j].context.live
        THEN [tks[j] EXCEPT !.context.value = ctx]
        ELSE tks[j]]

(*------------------ _validate_scenario, lines 459-512 --------------------*)
\* workflow_result.get(key, default) of the map orchestrate_workflow returned
GetOr(m, key, default) == IF key \in DOMAIN m THEN m[key] ELSE default

Max(a, b) == IF a >= b THEN a ELSE b

\* success_rate >= min_success_rate, the rate being successful / total and
\* the criterion a number of hundredths
RateReached(successful, total, min_success_rate) ==
    successful * 100 >= min_success_rate * total

\* workflow_result.get("workflow_context", {}).get(agent, {})
\*                .get("success", False)
RequiredAgentSuccess(workflow_result, agent) ==
    LET ctx == GetOr(workflow_result, "workflow_context", EmptyCtx) IN
    IF agent \in DOMAIN ctx THEN ctx[agent].success ELSE FALSE

ValidateScenario_RateOnly(workflow_result, criteria) ==
    LET successful == GetOr(workflow_result, "successful_steps", 0)
        total      == Max(GetOr(workflow_result, "total_steps", 1), 1)
        rate_valid == RateReached(successful, total, criteria.min_success_rate)
    IN  [valid        |-> rate_valid,
         validations  |-> <<rate_valid>>,
         success_rate |-> <<successful, total>>]

\* one entry of validations for the rate and one per required agent;
\* all_valid is cleared by every entry that is not valid
ValidateScenario(workflow_result, criteria) ==
    LET successful == GetOr(workflow_result, "successful_steps", 0)
        total      == Max(GetOr(workflow_result, "total_steps", 1), 1)
        rate_valid == RateReached(successful, total, criteria.min_success_rate)
        required   == criteria.required_agents
        agent_valid ==
            [k \in 1..Len(required) |->
                RequiredAgentSuccess(workflow_result, required[k])]
    IN  [valid        |-> /\ rate_valid
                          /\ \A k \in 1..Len(required) : agent_valid[k],
         validations  |-> <<rate_valid>> \o agent_valid,
         success_rate |-> <<successful, total>>]

ScenarioResult_AndValid(criteria, workflow_result) ==
    LET validation == ValidateScenario(workflow_result, criteria) IN
    [kind  |-> "return",
     value |-> [success         |-> /\ GetOr(workflow_result, "success", FALSE)
                                    /\ validation.valid,
                workflow_result |-> workflow_result,
                validation      |-> validation]]

\* lines 311-324: what execute_e2e_scenario makes of the workflow's result
ScenarioResult(criteria, workflow_result) ==
    [kind  |-> "return",
     value |-> [success         |-> GetOr(workflow_result, "success", FALSE),
                workflow_result |-> workflow_result,
                validation      |->
                    ValidateScenario(workflow_result, criteria)]]

\* lines 326-332
ScenarioError(msg) ==
    [kind |-> "return", value |-> [success |-> FALSE, error |-> msg]]

\* what the caller is handed when orchestrate_workflow returns r: r itself,
\* or, when execute_e2e_scenario awaited it, the scenario result made of r
Delivered(cl, r) ==
    IF cl.op = "execute_e2e_scenario"
    THEN ScenarioResult(cl.criteria, r.value)
    ELSE r

\* the invocation of caller c is over
Return(c, r, i, res, ctx, tks, hc) ==
    /\ pc' = [pc EXCEPT ![c] = "done"]
    /\ idx' = [idx EXCEPT ![c] = i]
    /\ results' = [results EXCEPT ![c] = res]
    /\ workflow_context' = [workflow_context EXCEPT ![c] = ctx]
    /\ tasks' = [tasks EXCEPT ![c] = tks]
    /\ handle_calls' = hc
    /\ ret' = [ret EXCEPT ![c] = Delivered(call'[c], r)]

\* execute_task of step i up to its await: lines 94-110.  Every member of
\* AgentType has a handle (lines 57-66), so the lookup of a step's agent
\* finds one.
Dispatch(c, where, inv, wf, i, res, ctx, tks, hc) ==
    LET tc == AttachContext(tks[i].context, ctx) IN
    /\ pc' = [pc EXCEPT ![c] = where]
    /\ idx' = [idx EXCEPT ![c] = i]
    /\ results' = [results EXCEPT ![c] = res]
    /\ workflow_context' = [workflow_context EXCEPT ![c] = ctx]
    /\ tasks' = [tasks EXCEPT ![c] = [tks EXCEPT ![i].context = tc]]
    /\ handle_calls' =
           Append(hc, HandleCall(c, inv, wf[i].agent, wf[i].task, tc))
    /\ ret' = [ret EXCEPT ![c] = NoReturn]

NewCall(c, op, wf, mode) ==
    /\ pc[c] = "idle"
    /\ ncalls' = ncalls + 1
    /\ call' = [call EXCEPT ![c] =
                  [op |-> op, inv |-> ncalls + 1, workflow |-> wf,
                   mode |-> mode]]

(*-------------------------- SEQUENTIAL, lines 160-186 --------------------*)
\* top of the loop body for step i: AgentType(step["agent"]) raises a
\* ValueError on a literal that is no agent type, which line 274 catches
SeqLoop(c, inv, wf, i, res, ctx, tks, hc) ==
    IF i > Len(wf)
    THEN Return(c, WorkflowResult(wf, "sequential", res, ctx),
                i, res, ctx, tks, hc)
    ELSE IF wf[i].agent \notin AgentType
    THEN Return(c, WorkflowError(InvalidAgentMsg), i, res, ctx, tks, hc)
    ELSE Dispatch(c, "seq_await", inv, wf, i, res, ctx, tks, hc)

\* lines 157-171: the branch is entered and runs up to its first await
SeqBegin(c, wf) ==
    /\ SeqLoop(c, ncalls + 1, wf, 1, <<>>, EmptyCtx, FreshTasks(wf),
               handle_calls)
    /\ UNCHANGED <<wsvars, agents, execution_history, par>>

OrchestrateSequentialWith(c, wf) ==
    /\ NewCall(c, "orchestrate_workflow", wf, "sequential")
    /\ SeqBegin(c, wf)

OrchestrateSequential(c) ==
    /\ pc[c] = "idle"
    /\ \E wf \in WorkflowsFor("sequential") : OrchestrateSequentialWith(c, wf)

\* the handle of step idx is over: lines 110-135, then 173-186 and the next
\* iteration up to its await
SeqComplete(c, outcome) ==
    /\ pc[c] = "seq_await"
    /\ UNCHANGED <<wsvars, agents, ncalls, call, par>>
    /\ LET wf   == call[c].workflow
           i    == idx[c]
           step == wf[i]
           comp == Completion(step.agent, step.task, outcome)
           hc   == Settle(handle_calls, PendingCall(c, step.task.type), outcome)
           res  == Append(results[c],
                          StepResult(step, step.agent, comp.value))
           ctx  == ContextAfter(workflow_context[c], step.agent, comp.value)
           tks  == Realias(tasks[c], ctx)
       IN  /\ execution_history' =
                  HistoryAfter(execution_history, step.agent, step.task, outcome)
           /\ IF comp.kind = "raise"
              THEN Return(c, WorkflowError(comp.value.error), i, results[c],
                          workflow_context[c], tasks[c], hc)
              ELSE IF StopOnFailure(step, comp.value)
              THEN Return(c, WorkflowResult(wf, "sequential", res, ctx),
                          i, res, ctx, tks, hc)
              ELSE SeqLoop(c, call[c].inv, wf, i + 1, res, ctx, tks, hc)

(*--------------------------- PARALLEL, lines 188-222 ---------------------*)
\* a coroutine that has not finished holds no result yet
NoCompletion ==
    [kind  |-> "none",
     value |-> [success |-> FALSE, error |-> NoKey, agent_type |-> NoKey,
                data |-> 0]]

\* the coroutines of lines 196-202, one per step, none of them started
Created(wf) == [i \in 1..Len(wf) |-> [st |-> "created", comp |-> NoCompletion]]

\* lines 189-205: the coroutines are built for every step before any of them
\* runs, so a literal that is no agent type ends the workflow before a
\* dispatch; asyncio.gather of no coroutine is done at once
ParBegin(c, wf) ==
    /\ IF \E i \in 1..Len(wf) : wf[i].agent \notin AgentType
       THEN /\ Return(c, WorkflowError(InvalidAgentMsg), 0, <<>>, EmptyCtx,
                      FreshTasks(wf), handle_calls)
            /\ par' = par
       ELSE IF Len(wf) = 0
       THEN /\ Return(c, WorkflowResult(wf, "parallel", <<>>, EmptyCtx),
                      0, <<>>, EmptyCtx, FreshTasks(wf), handle_calls)
            /\ par' = par
       ELSE /\ pc' = [pc EXCEPT ![c] = "par_run"]
            /\ idx' = [idx EXCEPT ![c] = 0]
            /\ results' = [results EXCEPT ![c] = <<>>]
            /\ workflow_context' = [workflow_context EXCEPT ![c] = EmptyCtx]
            /\ tasks' = [tasks EXCEPT ![c] = FreshTasks(wf)]
            /\ ret' = [ret EXCEPT ![c] = NoReturn]
            /\ par' = [par EXCEPT ![c] = Created(wf)]
            /\ handle_calls' = handle_calls
    /\ UNCHANGED <<wsvars, agents, execution_history>>

OrchestrateParallelWith(c, wf) ==
    /\ NewCall(c, "orchestrate_workflow", wf, "parallel")
    /\ ParBegin(c, wf)

OrchestrateParallel(c) ==
    /\ pc[c] = "idle"
    /\ \E wf \in WorkflowsFor("parallel") : OrchestrateParallelWith(c, wf)

\* the event loop starts the gathered coroutines in the order they were
\* handed in; each runs execute_task up to its await (lines 94-110)
ParStart(c) ==
    /\ pc[c] = "par_run"
    /\ \E i \in 1..Len(par[c]) :
         /\ par[c][i].st = "created"
         /\ \A j \in 1..(i - 1) : par[c][j].st # "created"
         /\ LET wf == call[c].workflow
                tc == AttachContext(tasks[c][i].context, workflow_context[c])
            IN  /\ tasks' = [tasks EXCEPT ![c][i].context = tc]
                /\ handle_calls' = Append(handle_calls,
                       HandleCall(c, call[c].inv, wf[i].agent, wf[i].task, tc))
         /\ par' = [par EXCEPT ![c][i].st = "awaiting"]
    /\ UNCHANGED <<wsvars, agents, execution_history, ncalls, pc, call, idx, results,
                   workflow_context, ret>>

ParContextAfter_Update(ctx, agent, result) == ContextAfter(ctx, agent, result)

\* what the completion of a gathered execute_task writes to the workflow's
\* context: nothing, the PARALLEL branch has no counterpart of lines 179-181
ParContextAfter(ctx, agent, result) == ctx

\* the handle of step i is over: lines 110-135 of its coroutine
ParComplete(c, i, outcome) ==
    /\ pc[c] = "par_run"
    /\ i \in 1..Len(par[c])
    /\ par[c][i].st = "awaiting"
    /\ LET step == call[c].workflow[i]
           comp == Completion(step.agent, step.task, outcome)
       IN  /\ handle_calls' =
                  Settle(handle_calls, PendingCall(c, step.task.type), outcome)
           /\ execution_history' =
                  HistoryAfter(execution_history, step.agent, step.task, outcome)
           /\ par' = [par EXCEPT ![c][i] = [st |-> "done", comp |-> comp]]
           /\ workflow_context' = [workflow_context EXCEPT ![c] =
                  ParContextAfter(@, step.agent, comp.value)]
           /\ tasks' = [tasks EXCEPT ![c] =
                  Realias(@, ParContextAfter(workflow_context[c], step.agent,
                                             comp.value))]
    /\ UNCHANGED <<wsvars, agents, ncalls, pc, call, idx, results, ret>>

BatchDone_FirstFailure(batch) ==
    \/ \A i \in 1..Len(batch) : batch[i].st = "done"
    \/ \E i \in 1..Len(batch) :
         batch[i].st = "done" /\ ~batch[i].comp.value.success

\* the gather is never over
BatchDone_Never(batch) == FALSE

\* asyncio.gather(*tasks, return_exceptions=True) is over when every
\* coroutine is
BatchDone(batch) == \A i \in 1..Len(batch) : batch[i].st = "done"

\* the entries come in the reverse of the step order
Gathered_Reversed(wf, batch) ==
    [i \in 1..Len(wf) |->
        LET j == Len(wf) + 1 - i IN
        StepResult(wf[j], wf[j].agent, batch[j].comp.value)]

\* lines 207-222: one entry per step, in step order
Gathered(wf, batch) ==
    [i \in 1..Len(wf) |->
        IF batch[i].comp.kind = "raise"
        THEN StepResult(wf[i], wf[i].agent,
                        [success |-> FALSE, error |-> batch[i].comp.value.error,
                         agent_type |-> NoKey, data |-> 0])
        ELSE StepResult(wf[i], wf[i].agent, batch[i].comp.value)]

\* lines 205-272: gather hands back the results and the workflow returns
ParCollect(c) ==
    /\ pc[c] = "par_run"
    /\ BatchDone(par[c])
    /\ UNCHANGED <<wsvars, agents, execution_history, ncalls, call, par>>
    /\ LET wf  == call[c].workflow
           res == Gathered(wf, par[c])
       IN  Return(c, WorkflowResult(wf, "parallel", res, workflow_context[c]),
                  Len(wf), res, workflow_context[c], tasks[c], handle_calls)

(*-------------------------- CONDITIONAL, lines 224-255 -------------------*)
\* lines 228-236: the step is passed over
Skipped(step, ctx) ==
    /\ step.condition.type # "none"
    /\ ~EvaluateCondition(step.condition, ctx)

\* the loop starts over from the first step
NextToRun_Restart(wf, i, ctx) == IF Len(wf) = 0 THEN i ELSE 1

\* the loop goes back to the step it has just run
NextToRun_Again(wf, i, ctx) == IF i > 1 THEN i - 1 ELSE i

RECURSIVE NextToRun_Break(_, _, _)
NextToRun_Break(wf, i, ctx) ==
    IF i > Len(wf) THEN i
    ELSE IF Skipped(wf[i], ctx) THEN Len(wf) + 1
    ELSE i

\* the first step from i on that is not skipped (`continue` goes on with the
\* next step, the context does not change in between); Len(wf) + 1 if none
RECURSIVE NextToRun(_, _, _)
NextToRun(wf, i, ctx) ==
    IF i > Len(wf) THEN i
    ELSE IF Skipped(wf[i], ctx) THEN NextToRun(wf, i + 1, ctx)
    ELSE i

CondLoop(c, inv, wf, i, res, ctx, tks, hc) ==
    LET j == NextToRun(wf, i, ctx) IN
    IF j > Len(wf)
    THEN Return(c, WorkflowResult(wf, "conditional", res, ctx),
                j, res, ctx, tks, hc)
    ELSE IF wf[j].agent \notin AgentType
    THEN Return(c, WorkflowError(InvalidAgentMsg), j, res, ctx, tks, hc)
    ELSE Dispatch(c, "cond_await", inv, wf, j, res, ctx, tks, hc)

\* lines 157-171 for the CONDITIONAL branch, up to its first await
CondBegin(c, wf) ==
    /\ CondLoop(c, ncalls + 1, wf, 1, <<>>, EmptyCtx, FreshTasks(wf),
                handle_calls)
    /\ UNCHANGED <<wsvars, agents, execution_history, par>>

OrchestrateConditionalWith(c, wf) ==
    /\ NewCall(c, "orchestrate_workflow", wf, "conditional")
    /\ CondBegin(c, wf)

OrchestrateConditional(c) ==
    /\ pc[c] = "idle"
    /\ \E wf \in WorkflowsFor("conditional") : OrchestrateConditionalWith(c, wf)

\* the handle of step idx is over: lines 110-135, then 247-255 and the next
\* iterations up to an await; the branch has no counterpart of lines 183-186
CondComplete(c, outcome) ==
    /\ pc[c] = "cond_await"
    /\ UNCHANGED <<wsvars, agents, ncalls, call, par>>
    /\ LET wf   == call[c].workflow
           i    == idx[c]
           step == wf[i]
           comp == Completion(step.agent, step.task, outcome)
           hc   == Settle(handle_calls, PendingCall(c, step.task.type), outcome)
           res  == Append(results[c],
                          StepResult(step, step.agent, comp.value))
           ctx  == ContextAfter(workflow_context[c], step.agent, comp.value)
           tks  == Realias(tasks[c], ctx)
       IN  /\ execution_history' =
                  HistoryAfter(execution_history, step.agent, step.task, outcome)
           /\ IF comp.kind = "raise"
              THEN Return(c, WorkflowError(comp.value.error), i, results[c],
                          workflow_context[c], tasks[c], hc)
              ELSE CondLoop(c, call[c].inv, wf, i + 1, res, ctx, tks, hc)

(*------------------- any other mode (DELEGATED): no branch ---------------*)
\* the mode falls back to the SEQUENTIAL branch
DelegatedBegin_Sequential(c, wf) ==
    /\ SeqLoop(c, ncalls + 1, wf, 1, <<>>, EmptyCtx, FreshTasks(wf),
               handle_calls)
    /\ UNCHANGED <<wsvars, agents, execution_history, par>>

\* no branch is taken: lines 157-158, then 257-272
DelegatedBegin(c, wf) ==
    /\ Return(c, WorkflowResult(wf, "delegated", <<>>, EmptyCtx),
              0, <<>>, EmptyCtx, FreshTasks(wf), handle_calls)
    /\ UNCHANGED <<wsvars, agents, execution_history, par>>

OrchestrateDelegatedWith(c, wf) ==
    /\ NewCall(c, "orchestrate_workflow", wf, "delegated")
    /\ DelegatedBegin(c, wf)

OrchestrateDelegated(c) ==
    /\ pc[c] = "idle"
    /\ \E wf \in WorkflowsFor("delegated") : OrchestrateDelegatedWith(c, wf)

(***************************************************************************)
(* execute_e2e_scenario, lines 281-332                                     *)
(***************************************************************************)
\* str(e) of the ValueError of OrchestrationMode(scenario_config["mode"])
InvalidModeMsg == "not a valid OrchestrationMode"

\* the agents of the scenarios' steps
ScenarioAgents == {"monitoring", "sop", "report"}

\* mode literals of a scenario_config: the members of OrchestrationMode and
\* one literal that is none
ScenarioModes == OrchestrationMode \cup {"unknown_mode"}

\* min_success_rate of the validation criteria, in hundredths
MinSuccessRates == {50, 100}

\* required_agents of the validation criteria
RequiredAgents == {<<>>, <<"sop">>}

ScenarioCriteria ==
    [min_success_rate : MinSuccessRates, required_agents : RequiredAgents]

\* scenario_config["workflow"] under a mode literal; a field the mode's
\* branch never reads keeps its default
ScenarioWorkflows(mode) ==
    UNION {WorkflowsOfLen(n, ScenarioAgents,
                          IF mode = "sequential" THEN BOOLEAN ELSE {FALSE},
                          IF mode = "conditional"
                          THEN InputConditions ELSE {NoCondition}) :
           n \in 0..MaxSteps}

\* handle behaviours the scenarios are run against
ScenarioOutcomes == {"success", "failure"}

\* lines 296-309 and the branch of orchestrate_workflow up to its first
\* await; a mode literal that is no OrchestrationMode raises at line 303 and
\* the except of line 326 returns the error map
ExecuteScenarioWith(c, wf, mode, criteria) ==
    /\ pc[c] = "idle"
    /\ ncalls' = ncalls + 1
    /\ call' = [call EXCEPT ![c] =
                  [op |-> "execute_e2e_scenario", inv |-> ncalls + 1,
                   workflow |-> wf, mode |-> mode, criteria |-> criteria]]
    /\ CASE mode = "sequential"  -> SeqBegin(c, wf)
         [] mode = "parallel"    -> ParBegin(c, wf)
         [] mode = "conditional" -> CondBegin(c, wf)
         [] mode = "delegated"   -> DelegatedBegin(c, wf)
         [] OTHER ->
              /\ pc' = [pc EXCEPT ![c] = "done"]
              /\ ret' = [ret EXCEPT ![c] = ScenarioError(InvalidModeMsg)]
              /\ UNCHANGED <<wsvars, agents, execution_history, handle_calls, tasks,
                             idx, results, workflow_context, par>>

ExecuteScenario(c) ==
    /\ pc[c] = "idle"
    /\ \E mode \in ScenarioModes :
       \E wf \in ScenarioWorkflows(mode), criteria \in ScenarioCriteria :
          ExecuteScenarioWith(c, wf, mode, criteria)

(***************************************************************************)
(* get_agent_status, lines 374-401                                         *)
(***************************************************************************)
AgentExecutions_Successful(history, agent_type) ==
    SelectSeq(history, LAMBDA e : e.agent_type = agent_type /\ e.success)

\* [e for e in self.execution_history if e["agent_type"] == agent_type.value]
AgentExecutions(history, agent_type) ==
    SelectSeq(history, LAMBDA e : e.agent_type = agent_type)

\* the status map, without the handles' constant name and role
AgentStatus(registry, history) ==
    [total_agents     |-> Cardinality(DOMAIN registry),
     agents           |->
        [a \in DOMAIN registry |->
            LET agent_executions == AgentExecutions(history, a) IN
            [total_executions      |-> Len(agent_executions),
             successful_executions |->
                 Len(SelectSeq(agent_executions, LAMBDA e : e.success))]],
     total_executions |-> Len(history)]

\* a synchronous read: it runs from a caller that is not suspended
GetAgentStatus(c) ==
    /\ pc[c] \in {"idle", "done"}
    /\ call' = [call EXCEPT ![c] = [op |-> "get_agent_status", inv |-> 0]]
    /\ ret' = [ret EXCEPT ![c] =
                 [kind  |-> "return",
                  value |-> AgentStatus(agents, execution_history)]]
    /\ pc' = [pc EXCEPT ![c] = "done"]
    /\ UNCHANGED <<wsvars, agents, execution_history, handle_calls, ncalls, tasks,
                   idx, results, workflow_context, par>>

(***************************************************************************)
(* get_execution_history, lines 403-424                                    *)
(***************************************************************************)
\* the agent_type argument left at its default
NoFilter == "<None>"

Min(a, b) == IF a <= b THEN a ELSE b

\* Python's seq[start:]: a negative start counts from the end, and a start
\* beyond either end is clamped
SliceFrom(seq, start) ==
    LET from == IF start < 0
                THEN Max(Len(seq) + start, 0)
                ELSE Min(start, Len(seq))
    IN  SubSeq(seq, from + 1, Len(seq))

\* lines 418-424
ExecutionHistory(history, agent_type, limit) ==
    LET selected == IF agent_type # NoFilter
                    THEN SelectSeq(history,
                                   LAMBDA h : h.agent_type = agent_type)
                    ELSE history
    IN  SliceFrom(selected, 0 - limit)

HistoryAfterRead_Drain(history, agent_type, limit) ==
    SubSeq(history, 1,
           Len(history) - Len(ExecutionHistory(history, agent_type, limit)))

\* self.execution_history after the read: lines 418-424 bind it to a local
\* name, build the filtered list anew and return a slice, a copy
HistoryAfterRead(history, agent_type, limit) == history

GetExecutionHistory(c, agent_type, limit) ==
    /\ pc[c] \in {"idle", "done"}
    /\ call' = [call EXCEPT ![c] =
                  [op |-> "get_execution_history", inv |-> 0,
                   agent_type |-> agent_type, limit |-> limit]]
    /\ ret' = [ret EXCEPT ![c] =
                 [kind  |-> "return",
                  value |-> ExecutionHistory(execution_history, agent_type,
                                             limit)]]
    /\ execution_history' =
           HistoryAfterRead(execution_history, agent_type, limit)
    /\ pc' = [pc EXCEPT ![c] = "done"]
    /\ UNCHANGED <<wsvars, agents, handle_calls, ncalls, tasks, idx, results,
                   workflow_context, par>>

NextTask ==
    \/ \E a \in TaskAgents : ExecuteTaskNotFound("c1", a)
    \/ \E a \in TaskAgents : ExecuteTaskDispatch("c1", a)
    \/ \E o \in Outcomes : ExecuteTaskComplete("c1", o)

SpecTask == Init /\ [][NextTask]_vars

NextSeq ==
    \/ OrchestrateSequential("c1")
    \/ \E o \in Outcomes : SeqComplete("c1", o)

SpecSeq == Init /\ [][NextSeq]_vars


NextPar ==
    \/ OrchestrateParallel("c1")
    \/ ParStart("c1")
    \/ \E i \in 1..MaxSteps, o \in Outcomes : ParComplete("c1", i, o)
    \/ ParCollect("c1")

SpecPar == Init /\ [][NextPar]_vars


NextCond ==
    \/ OrchestrateConditional("c1")
    \/ \E o \in Outcomes : CondComplete("c1", o)

SpecCond == Init /\ [][NextCond]_vars

\* orchestrate_workflow under any of its modes
NextWf ==
    \/ NextSeq
    \/ NextPar
    \/ NextCond
    \/ OrchestrateDelegated("c1")

SpecWf == Init /\ [][NextWf]_vars

\* execute_e2e_scenario: the scenario's workflow runs under its mode
NextScenario ==
    \/ ExecuteScenario("c1")
    \/ \E o \in ScenarioOutcomes : SeqComplete("c1", o)
    \/ ParStart("c1")
    \/ \E i \in 1..MaxSteps, o \in ScenarioOutcomes : ParComplete("c1", i, o)
    \/ ParCollect("c1")
    \/ \E o \in ScenarioOutcomes : CondComplete("c1", o)

SpecScenario == Init /\ [][NextScenario]_vars

(***************************************************************************)
(* One caller runs a workflow or a scenario while another one makes direct *)
(* execute_task calls and reads the status and the history                 *)
(***************************************************************************)
\* agent types the second caller asks for
OpsAgents == {"monitoring", "unknown_type"}

\* the workflows of the first caller: their steps go to another agent
OpsWorkflows ==
    UNION {WorkflowsOfLen(n, {"sop"}, {FALSE}, {NoCondition}) :
           n \in 0..MaxOpsSteps}

\* validation criteria at their defaults (lines 478 and 492)
DefaultCriteria == [min_success_rate |-> 100, required_agents |-> <<>>]

OrchestrateOps(c) ==
    /\ pc[c] = "idle"
    /\ \E wf \in OpsWorkflows :
         \/ OrchestrateSequentialWith(c, wf)
         \/ OrchestrateParallelWith(c, wf)
         \/ OrchestrateConditionalWith(c, wf)
         \/ OrchestrateDelegatedWith(c, wf)
         \/ ExecuteScenarioWith(c, wf, "sequential", DefaultCriteria)

\* the direct execute_task invocations made so far
DirectCalls ==
    ncalls - Cardinality({c \in Callers : "workflow" \in DOMAIN call[c]})

NextOps ==
    \/ OrchestrateOps("c1")
    \/ \E o \in Outcomes : SeqComplete("c1", o)
    \/ ParStart("c1")
    \/ \E i \in 1..MaxOpsSteps, o \in Outcomes : ParComplete("c1", i, o)
    \/ ParCollect("c1")
    \/ \E o \in Outcomes : CondComplete("c1", o)
    \/ /\ DirectCalls < MaxOpsCalls
       /\ \E a \in OpsAgents : ExecuteTaskNotFound("c2", a)
    \/ /\ DirectCalls < MaxOpsCalls
       /\ \E a \in OpsAgents : ExecuteTaskDispatch("c2", a)
    \/ \E o \in Outcomes : ExecuteTaskComplete("c2", o)
    \/ GetAgentStatus("c2")
    \/ GetExecutionHistory("c2", NoFilter, MaxLimit)

SpecOps == Init /\ [][NextOps]_vars

(***************************************************************************)
(* One caller makes direct execute_task calls, another reads the history   *)
(***************************************************************************)
\* agent_type arguments of get_execution_history
HistoryFilters == {NoFilter, "monitoring"}

NextReads ==
    \/ \E a \in InputAgents : ExecuteTaskNotFound("c1", a)
    \/ \E a \in InputAgents : ExecuteTaskDispatch("c1", a)
    \/ \E o \in Outcomes : ExecuteTaskComplete("c1", o)
    \/ \E a \in HistoryFilters, n \in 0..MaxLimit :
          GetExecutionHistory("c2", a, n)

SpecReads == Init /\ [][NextReads]_vars

(***************************************************************************)
(* _evaluate_condition on the conditions and contexts of a workflow        *)
(***************************************************************************)
\* the contexts a workflow can hold: per agent type no entry, or the
\* successful result of one of its steps (lines 179-181, 253-255)
EvalContexts ==
    UNION {[S -> {HandleResult("success", [type |-> i]) : i \in 1..MaxSteps}] :
           S \in SUBSET {"monitoring", "sop"}}

\* values a field_equals condition compares with
EvalValues ==
    {PyBool(TRUE), PyBool(FALSE), PyInt(1), PyInt(2), PyStr("agent failed"),
     PyNone}

EvalConditions ==
    {AgentSuccess(a) : a \in {"monitoring", "sop", "infra"}}
    \cup {FieldEquals(a, f, v) :
             a \in {"monitoring", "sop"},
             f \in {"success", "data", "error", "priority"},
             v \in EvalValues}
    \cup {UnknownKind}

NextEval ==
    \E condition \in EvalConditions, context \in EvalContexts :
        EvaluateConditionCall("c1", condition, context)

SpecEval == Init /\ [][NextEval]_vars

(***************************************************************************)
(* Conditional workflows gated by conditions of every kind                 *)
(***************************************************************************)
GateConditions == {NoCondition, AgentSuccess("monitoring"), UnknownKind}

GatedWorkflows ==
    UNION {WorkflowsOfLen(n, {"monitoring", "sop"}, {FALSE}, GateConditions) :
           n \in 0..MaxSteps}

OrchestrateGated(c) ==
    /\ pc[c] = "idle"
    /\ \E wf \in GatedWorkflows : OrchestrateConditionalWith(c, wf)

NextGated ==
    \/ OrchestrateGated("c1")
    \/ \E o \in Outcomes : CondComplete("c1", o)

SpecGated == Init /\ [][NextGated]_vars

(***************************************************************************)
(* Properties                                                              *)
(***************************************************************************)
IsTaskCall(c) == call[c].op = "execute_task"
IsWorkflow(c, mode) ==
    call[c].op = "orchestrate_workflow" /\ call[c].mode = mode

\* the handle calls made on behalf of the invocation caller c holds
CallsOf(c) ==
    {k \in 1..Len(handle_calls) : handle_calls[k].inv = call[c].inv}

\* the handle calls made for step i of the workflow of caller c
CallsOfStep(c, i) == {k \in CallsOf(c) : handle_calls[k].task = i}

\* the invocation handed back a workflow result, not the error map
HasResults(c) ==
    /\ pc[c] = "done"
    /\ ret[c].kind = "return"
    /\ "results" \in DOMAIN ret[c].value

SetMax(S) == CHOOSE x \in S : \A y \in S : y <= x

\* the steps before step i, with agent a, whose handle reported success
SucceededBefore(c, i, a) ==
    {j \in 1..(i - 1) :
        /\ call[c].workflow[j].agent = a
        /\ \E k \in CallsOfStep(c, j) : handle_calls[k].outcome = "success"}

\* the map of the latest successful result per agent type of the steps
\* before step i, told from what the handles reported
SuccessesBefore(c, i) ==
    [a \in {b \in AgentType : SucceededBefore(c, i, b) # {}} |->
        HandleResult("success",
                     call[c].workflow[SetMax(SucceededBefore(c, i, a))].task)]

(*------------------------------- C1 --------------------------------------*)
\* C1: execute_task never propagates an exception: whatever the handle does,
\* the caller is handed a result map, and when the handle raised that map
\* has success = false and carries the message of the exception.
C1_NeverPropagates ==
    \A c \in Callers :
        (IsTaskCall(c) /\ pc[c] = "done") =>
            /\ ret[c].kind = "return"
            /\ "success" \in DOMAIN ret[c].value
            /\ \A k \in CallsOf(c) :
                 handle_calls[k].outcome = "raise" =>
                    /\ ~ret[c].value.success
                    /\ ret[c].value.error = HandleExceptionMsg

C1_Witness ==
    \E c \in Callers :
        /\ IsTaskCall(c) /\ pc[c] = "done"
        /\ call[c].agent_type \in AgentType
        /\ \E k \in CallsOf(c) : handle_calls[k].outcome = "raise"
        /\ ret[c].kind = "return" /\ ~ret[c].value.success

(*------------------------------- C2 --------------------------------------*)
\* C2: every execute_task call that entered a handle has appended exactly
\* one record to the execution history once it is over, whether the handle
\* returned success, returned failure or raised.
C2_OneRecordPerHandleCall ==
    Len(execution_history) =
        Cardinality({k \in 1..Len(handle_calls) :
                        handle_calls[k].outcome # "pending"})

(*------------------------------- C3 --------------------------------------*)
\* C3: an execute_task call for an agent type without a handle returns
\* success = false with the agent-not-found error, enters no handle and
\* leaves the execution history as it was.
C3_NotFoundNoTrace ==
    [][\A c \in Callers :
          ( /\ ncalls' = ncalls + 1
            /\ call'[c].inv = ncalls'
            /\ call'[c].op = "execute_task"
            /\ call'[c].agent_type \notin DOMAIN agents )
          => /\ pc'[c] = "done"
             /\ ret'[c].kind = "return"
             /\ ~ret'[c].value.success
             /\ ret'[c].value.error = "Agent not found"
             /\ handle_calls' = handle_calls
             /\ execution_history' = execution_history]_vars

C3_Witness ==
    \E c \in Callers :
        /\ IsTaskCall(c) /\ pc[c] = "done"
        /\ call[c].agent_type \notin DOMAIN agents
        /\ ret[c].value.error = "Agent not found"
        /\ Len(execution_history) >= 1
        /\ Len(handle_calls) = Len(execution_history)

C5_StopOnFailure ==
    \A c \in Callers :
        IsWorkflow(c, "sequential") =>
            \A n \in 1..Len(results[c]) :
                LET i == results[c][n].step IN
                ( /\ ~results[c][n].result.success
                  /\ call[c].workflow[i].stop_on_failure )
                => /\ HasResults(c)
                   /\ n = i
                   /\ Len(results[c]) = i
                   /\ Len(ret[c].value.results) = i
                   /\ \A k \in CallsOf(c) : handle_calls[k].task <= i
                   /\ \A h \in 1..Len(execution_history) :
                        execution_history[h].task_type <= i

C5_Witness ==
    \E c \in Callers :
        /\ IsWorkflow(c, "sequential")
        /\ Len(call[c].workflow) = MaxSteps
        /\ HasResults(c)
        /\ Len(ret[c].value.results) = 2
        /\ ~ret[c].value.results[2].result.success
        /\ call[c].workflow[2].stop_on_failure
        /\ ret[c].value.total_steps = MaxSteps

(*------------------------------- C6 --------------------------------------*)
\* C6: in parallel mode the context of the returned workflow holds, for
\* every agent type with a successful step, the result of one of that
\* agent type's successful steps.
C6_ParallelContextFilled ==
    \A c \in Callers :
        (IsWorkflow(c, "parallel") /\ HasResults(c)) =>
            LET res == ret[c].value.results
                ctx == ret[c].value.workflow_context
            IN  \A n \in 1..Len(res) :
                    res[n].result.success =>
                        /\ res[n].agent \in DOMAIN ctx
                        /\ \E m \in 1..Len(res) :
                             /\ res[m].agent = res[n].agent
                             /\ res[m].result.success
                             /\ ctx[res[n].agent] = res[m].result

(*------------------------------- C7 --------------------------------------*)
\* C7: in parallel mode a step that fails or raises cancels no sibling:
\* when the workflow returns, every step was dispatched once and every
\* handle call has run to its end.
C7_NoSiblingCancelled ==
    \A c \in Callers :
        (IsWorkflow(c, "parallel") /\ HasResults(c)) =>
            /\ Len(ret[c].value.results) = Len(call[c].workflow)
            /\ \A i \in 1..Len(call[c].workflow) :
                 /\ Cardinality(CallsOfStep(c, i)) = 1
                 /\ \A k \in CallsOfStep(c, i) :
                      handle_calls[k].outcome # "pending"

C7_Witness ==
    \E c \in Callers :
        /\ IsWorkflow(c, "parallel") /\ HasResults(c)
        /\ Len(call[c].workflow) = 3
        /\ \E k \in CallsOfStep(c, 1) : handle_calls[k].outcome = "raise"
        /\ \E k \in CallsOfStep(c, 2) : handle_calls[k].outcome = "failure"
        /\ \E k \in CallsOfStep(c, 3) : handle_calls[k].outcome = "success"
        /\ ret[c].value.results[3].result.success

(*------------------------------- C8 --------------------------------------*)
\* C8: in parallel mode the context a step's handle is called with, and the
\* context its task map holds at any later time, is the context as it was
\* before the fan-out (empty): it never holds a result of a sibling.
C8_ParallelContextBlind ==
    \A c \in Callers :
        IsWorkflow(c, "parallel") =>
            /\ \A k \in CallsOf(c) : handle_calls[k].context = EmptyCtx
            /\ \A i \in 1..Len(tasks[c]) :
                 Visible(tasks[c][i].context) = EmptyCtx

\* a later step finished with success before an earlier one, and all ran
C8_Witness ==
    \E c \in Callers :
        /\ IsWorkflow(c, "parallel") /\ HasResults(c)
        /\ Len(execution_history) >= 2
        /\ execution_history[1].success /\ execution_history[2].success
        /\ execution_history[1].task_type > execution_history[2].task_type
        /\ \A k \in CallsOf(c) : handle_calls[k].context = EmptyCtx

(*------------------------------- C9 --------------------------------------*)
\* the steps of the conditional workflow of c that the loop has passed
Passed(c) == 1..(idx[c] - 1)

SkippedStep(c, i) == Skipped(call[c].workflow[i], SuccessesBefore(c, i))

\* C9: in conditional mode a step whose condition is false against the
\* context of the successes so far is skipped without error: no handle
\* call, no history record, no entry in results; the steps after it still
\* run, and the step still counts in total_steps.
C9_ConditionalSkip ==
    \A c \in Callers :
        IsWorkflow(c, "conditional") =>
            /\ \A i \in Passed(c) :
                 IF SkippedStep(c, i)
                 THEN /\ CallsOfStep(c, i) = {}
                      /\ \A h \in 1..Len(execution_history) :
                           execution_history[h].task_type # i
                      /\ \A n \in 1..Len(results[c]) : results[c][n].step # i
                 ELSE /\ CallsOfStep(c, i) # {}
                      /\ \E n \in 1..Len(results[c]) : results[c][n].step = i
            /\ ( /\ pc[c] = "done"
                 /\ \A i \in 1..Len(call[c].workflow) :
                      \/ call[c].workflow[i].agent \in AgentType
                      \/ (i \in Passed(c) /\ SkippedStep(c, i)) )
               => /\ HasResults(c)
                  /\ idx[c] = Len(call[c].workflow) + 1
                  /\ ret[c].value.total_steps = Len(call[c].workflow)
                  /\ ret[c].value.results = results[c]

\* the step gated on agent_success of an agent that never ran
C9_Witness ==
    \E c \in Callers :
        /\ IsWorkflow(c, "conditional") /\ HasResults(c)
        /\ Len(call[c].workflow) = 3
        /\ call[c].workflow[1].agent = "sop"
        /\ call[c].workflow[2].condition = AgentSuccess("monitoring")
        /\ SkippedStep(c, 2)
        /\ CallsOfStep(c, 2) = {}
        /\ CallsOfStep(c, 3) # {}
        /\ Len(ret[c].value.results) = 2
        /\ ret[c].value.total_steps = 3

(*------------------------------- C10 -------------------------------------*)
\* C10: in conditional mode a step that runs behaves as a sequential step,
\* abort included: when it fails with stop_on_failure the workflow stops,
\* and no later step is dispatched or recorded.
C10_ConditionalStopOnFailure ==
    \A c \in Callers :
        IsWorkflow(c, "conditional") =>
            \A n \in 1..Len(results[c]) :
                LET i == results[c][n].step IN
                ( /\ ~results[c][n].result.success
                  /\ call[c].workflow[i].stop_on_failure )
                => /\ pc[c] = "done"
                   /\ n = Len(results[c])
                   /\ \A k \in CallsOf(c) : handle_calls[k].task <= i
                   /\ \A h \in 1..Len(execution_history) :
                        execution_history[h].task_type <= i

(*------------------------------- C11 -------------------------------------*)
\* C11: under every mode the returned workflow has success = true exactly
\* when successful_steps equals the number of results produced, that is when
\* every produced result is a success; steps that were skipped or never
\* reached do not count, so a run without results reports success = true.
C11_SuccessOverProduced ==
    \A c \in Callers :
        HasResults(c) =>
            LET v  == ret[c].value
                ok == {n \in 1..Len(v.results) : v.results[n].result.success}
            IN  /\ v.successful_steps = Cardinality(ok)
                /\ v.success <=> (v.successful_steps = Len(v.results))
                /\ v.success <=> (ok = 1..Len(v.results))
                /\ Len(v.results) = 0 => v.success

\* every step of a conditional workflow was skipped: no result, success
C11_Witness ==
    \E c \in Callers :
        /\ IsWorkflow(c, "conditional") /\ HasResults(c)
        /\ ret[c].value.total_steps = 2
        /\ Len(ret[c].value.results) = 0
        /\ ret[c].value.success

(*------------------------------- C12 -------------------------------------*)
IsScenario(c) == call[c].op = "execute_e2e_scenario"

\* the scenario of caller c is over and was validated
Validated(c) ==
    /\ IsScenario(c)
    /\ pc[c] = "done"
    /\ ret[c].kind = "return"
    /\ "validation" \in DOMAIN ret[c].value

\* the steps of the invocation of c whose handle reported success
SucceededSteps(c) ==
    {i \in 1..Len(call[c].workflow) :
        \E k \in CallsOfStep(c, i) : handle_calls[k].outcome = "success"}

\* the agent has an entry with success = true in the workflow's context
InContext(c, agent) ==
    /\ agent \in DOMAIN workflow_context[c]
    /\ workflow_context[c][agent].success

\* C12: the validation of a scenario is valid exactly when the successful
\* steps over the requested steps (skipped and unreached ones included)
\* reach min_success_rate and every required agent has an entry with
\* success = true in the workflow's context.
C12_ValidationRule ==
    \A c \in Callers :
        (Validated(c) /\ Len(call[c].workflow) >= 1) =>
            LET wr       == ret[c].value.workflow_result
                criteria == call[c].criteria
                required == criteria.required_agents
            IN  /\ wr.successful_steps = Cardinality(SucceededSteps(c))
                /\ ret[c].value.validation.valid <=>
                     /\ wr.successful_steps * 100 >=
                            criteria.min_success_rate * Len(call[c].workflow)
                     /\ \A k \in 1..Len(required) : InContext(c, required[k])

\* a skipped step lowers the rate although every result is a success
C12_Witness ==
    \E c \in Callers :
        /\ Validated(c)
        /\ call[c].mode = "conditional"
        /\ Len(call[c].workflow) = 2
        /\ call[c].criteria.min_success_rate = 100
        /\ call[c].criteria.required_agents = <<"sop">>
        /\ InContext(c, "sop")
        /\ Len(ret[c].value.workflow_result.results) = 1
        /\ ret[c].value.workflow_result.success
        /\ ~ret[c].value.validation.valid

(*------------------------------- C13 -------------------------------------*)
\* C13: success of a scenario result is the success of the workflow it
\* wraps, whatever the validation says; it is not tied to validation.valid
\* (the four combinations of the two are reachable, see the predicates
\* below).
C13_SuccessIsWorkflowSuccess ==
    \A c \in Callers :
        Validated(c) =>
            /\ ret[c].value.success = ret[c].value.workflow_result.success
            /\ ret[c].value.success <=>
                 \A n \in 1..Len(results[c]) : results[c][n].result.success

ScenarioOutcome(c, success, valid) ==
    /\ Validated(c)
    /\ ret[c].value.success = success
    /\ ret[c].value.validation.valid = valid

\* a step failed, yet the rate and the required agents are met
C13_Witness ==
    \E c \in Callers :
        /\ ScenarioOutcome(c, FALSE, TRUE)
        /\ call[c].criteria.required_agents = <<"sop">>

C13_SuccessInvalid == \E c \in Callers : ScenarioOutcome(c, TRUE, FALSE)
C13_SuccessValid   == \E c \in Callers : ScenarioOutcome(c, TRUE, TRUE)
C13_FailureInvalid == \E c \in Callers : ScenarioOutcome(c, FALSE, FALSE)

(*------------------------------- C14 -------------------------------------*)
\* the scenario [monitoring, sop, report] with min_success_rate 1.0 and
\* required agent sop, in which sop reported a failure and the steps after it
\* ran and reported success
SopFailedOthersSucceeded(c) ==
    /\ Validated(c)
    /\ Len(call[c].workflow) = 3
    /\ call[c].workflow[1].agent = "monitoring"
    /\ call[c].workflow[2].agent = "sop"
    /\ call[c].workflow[3].agent = "report"
    /\ call[c].criteria.min_success_rate = 100
    /\ call[c].criteria.required_agents = <<"sop">>
    /\ \E k \in CallsOfStep(c, 2) : handle_calls[k].outcome = "failure"
    /\ \E k \in CallsOfStep(c, 3) : handle_calls[k].outcome = "success"

\* C14 as stated: in that scenario the workflow reports success = true while
\* the validation is not valid.
C14_SuccessDespiteFailedStep ==
    \A c \in Callers :
        SopFailedOthersSucceeded(c) =>
            /\ ret[c].value.workflow_result.success
            /\ ~ret[c].value.validation.valid

\* C14, amended: in that scenario the failed sop result is one of the
\* results produced, so the workflow reports success = false under every
\* mode, and the validation is not valid either.
C14_FailedStepFailsWorkflow ==
    \A c \in Callers :
        SopFailedOthersSucceeded(c) =>
            /\ ~ret[c].value.workflow_result.success
            /\ ~ret[c].value.success
            /\ ~ret[c].value.validation.valid

C14_Witness ==
    \E c \in Callers :
        /\ SopFailedOthersSucceeded(c)
        /\ call[c].mode = "sequential"
        /\ \E k \in CallsOfStep(c, 1) : handle_calls[k].outcome = "success"
        /\ ret[c].value.workflow_result.successful_steps = 2
        /\ ~ret[c].value.workflow_result.success

(*------------------------------- C15 -------------------------------------*)
\* C15: a scenario, sequential or parallel, in which every step was
\* dispatched and every handle reported success has success = true, a valid
\* validation and successful_steps = total_steps, whatever min_success_rate
\* (at most 1) and whichever of the step agents are required.
C15_AllSuccessIsValid ==
    \A c \in Callers :
        ( /\ Validated(c)
          /\ call[c].mode \in {"sequential", "parallel"}
          /\ Len(call[c].workflow) >= 1
          /\ SucceededSteps(c) = 1..Len(call[c].workflow)
          /\ \A k \in 1..Len(call[c].criteria.required_agents) :
                \E i \in 1..Len(call[c].workflow) :
                    call[c].workflow[i].agent =
                        call[c].criteria.required_agents[k] )
        => /\ ret[c].value.success
           /\ ret[c].value.validation.valid
           /\ ret[c].value.workflow_result.successful_steps =
                  ret[c].value.workflow_result.total_steps

(*------------------------------- C16 -------------------------------------*)
\* caller c has just been handed the result of the read `op`
ReadStep(c, op) ==
    /\ call'[c].op = op
    /\ <<call'[c], ret'[c]>> # <<call[c], ret[c]>>

\* the records of `history` with agent type a (and, if asked, success)
RecordsOf(history, a, successful_only) ==
    {k \in 1..Len(history) :
        /\ history[k].agent_type = a
        /\ successful_only => history[k].success}

RECURSIVE SumTotals(_, _)
SumTotals(per_agent, S) ==
    IF S = {} THEN 0
    ELSE LET a == CHOOSE x \in S : TRUE
         IN  per_agent[a].total_executions + SumTotals(per_agent, S \ {a})

\* C16: whatever execute_task calls and workflows have run or are running,
\* the map get_agent_status hands back agrees with the execution history:
\* per agent type, total_executions and successful_executions are the
\* numbers of its records and of its successful records, and the totals of
\* the agent types add up to total_executions, the length of the history.
C16_StatusMatchesHistory ==
    [][\A c \in Callers :
          ReadStep(c, "get_agent_status") =>
              LET st == ret'[c].value
                  h  == execution_history'
              IN  /\ DOMAIN st.agents = AgentType
                  /\ \A a \in AgentType :
                       /\ st.agents[a].total_executions =
                              Cardinality(RecordsOf(h, a, FALSE))
                       /\ st.agents[a].successful_executions =
                              Cardinality(RecordsOf(h, a, TRUE))
                  /\ st.total_executions = Len(h)
                  /\ SumTotals(st.agents, AgentType) = st.total_executions]_vars

\* the status was read while a workflow was suspended, after a direct call
\* and a step of the workflow had been recorded
C16_Witness ==
    /\ call["c2"].op = "get_agent_status"
    /\ pc["c1"] \in {"seq_await", "par_run", "cond_await"}
    /\ ret["c2"].value.total_executions = 2
    /\ ret["c2"].value.agents["monitoring"].total_executions = 1
    /\ ret["c2"].value.agents["monitoring"].successful_executions = 0
    /\ ret["c2"].value.agents["sop"].successful_executions = 1

(*------------------------------- C17 -------------------------------------*)
\* C17: the execution history is append-only: whatever operation takes a
\* step (execute_task, a workflow of any mode, a scenario, a read of the
\* status or of the history), the history before the step is a prefix of
\* the history after it.
C17_AppendOnly ==
    [][/\ Len(execution_history) <= Len(execution_history')
       /\ SubSeq(execution_history', 1, Len(execution_history)) =
              execution_history]_vars

\* a direct call and a scenario have been recorded and the history read
C17_Witness ==
    /\ IsScenario("c1") /\ pc["c1"] = "done"
    /\ call["c2"].op = "get_execution_history"
    /\ Len(ret["c2"].value) >= 2
    /\ Len(execution_history) >= 3
    /\ execution_history[1].agent_type = "sop"
    /\ execution_history[2].agent_type = "monitoring"

(*------------------------------- C18 -------------------------------------*)
\* the last n elements of seq, all of them if it has fewer
LastN(seq, n) ==
    SubSeq(seq, Len(seq) - Min(n, Len(seq)) + 1, Len(seq))

\* C18: for every limit N >= 0, get_execution_history hands back the last
\* min(N, number of matching records) records of the history (of the given
\* agent type, if one is given) in insertion order, never more than N.
C18_LastNRecords ==
    [][\A c \in Callers :
          ReadStep(c, "get_execution_history") =>
              LET a        == call'[c].agent_type
                  n        == call'[c].limit
                  matching ==
                      IF a = NoFilter THEN execution_history
                      ELSE SelectSeq(execution_history,
                                     LAMBDA h : h.agent_type = a)
              IN  /\ ret'[c].value = LastN(matching, n)
                  /\ Len(ret'[c].value) <= n]_vars

(*------------------------------- C19 -------------------------------------*)
\* C19: get_execution_history is an idempotent read: the call leaves the
\* history as it was, and the same call made again right after it (no
\* execution in between) hands back the same list in the same order.
C19_IdempotentRead ==
    [][\A c \in Callers :
          ReadStep(c, "get_execution_history") =>
              /\ execution_history' = execution_history
              /\ ExecutionHistory(execution_history', call'[c].agent_type,
                                  call'[c].limit) = ret'[c].value]_vars

\* a filtered read that handed back a proper part of the history
C19_Witness ==
    /\ call["c2"].op = "get_execution_history"
    /\ call["c2"].agent_type = "monitoring"
    /\ call["c2"].limit = 1
    /\ Len(ret["c2"].value) = 1
    /\ Len(execution_history) = 3
    /\ Cardinality(RecordsOf(execution_history, "monitoring", FALSE)) = 2
    /\ execution_history[3].agent_type = "sop"

(*------------------------------- C20 -------------------------------------*)
\* the workflow has a step whose agent is none of the agent types
Malformed(wf) == \E i \in 1..Len(wf) : wf[i].agent \notin AgentType

\* C20: a workflow with a malformed step, wherever the step is and whatever
\* the mode, is rejected before any dispatch: no handle is called for it and
\* no record is added to the history.
C20_RejectedBeforeDispatch ==
    \A c \in Callers :
        ( /\ call[c].op = "orchestrate_workflow"
          /\ Malformed(call[c].workflow) )
        => /\ CallsOf(c) = {}
           /\ execution_history = <<>>

(*------------------------------- C21 -------------------------------------*)
IsAnyWorkflow(c) == call[c].op = "orchestrate_workflow"

\* the handle calls of the invocation of c that failed or raised
FailedCalls(c) ==
    {k \in CallsOf(c) : handle_calls[k].outcome \in {"failure", "raise"}}

\* C21: when the agent of a step returns a failure or raises, the workflow
\* (its steps being well-formed) does not raise: it hands back a complete
\* workflow result (success, mode, total_steps, successful_steps, results,
\* workflow_context) whose results hold an entry with success = false for
\* the failing step.
C21_FailuresRecovered ==
    \A c \in Callers :
        ( /\ IsAnyWorkflow(c) /\ pc[c] = "done"
          /\ ~Malformed(call[c].workflow) )
        => /\ ret[c].kind = "return"
           /\ DOMAIN ret[c].value =
                 {"success", "mode", "total_steps", "successful_steps",
                  "results", "workflow_context"}
           /\ \A k \in FailedCalls(c) :
                 \E n \in 1..Len(ret[c].value.results) :
                    /\ ret[c].value.results[n].step = handle_calls[k].task
                    /\ ~ret[c].value.results[n].result.success

\* the first step raised, the second failed, the third succeeded
C21_Witness ==
    \E c \in Callers :
        /\ IsWorkflow(c, "sequential") /\ HasResults(c)
        /\ \E k \in CallsOfStep(c, 1) : handle_calls[k].outcome = "raise"
        /\ \E k \in CallsOfStep(c, 2) : handle_calls[k].outcome = "failure"
        /\ Len(ret[c].value.results) = 3
        /\ ret[c].value.results[1].result.error = HandleExceptionMsg
        /\ ret[c].value.successful_steps = 1

(*------------------------------- C22 -------------------------------------*)
\* the steps with agent a whose handle has reported success so far
SucceededWith(c, a) ==
    {j \in SucceededSteps(c) : call[c].workflow[j].agent = a}

\* C22: within a workflow run the context is written on success only, the
\* last write winning: every entry has success = true and is the result of
\* the latest successful step of its agent type; in the modes that write
\* the context no entry is ever missing for an agent type that succeeded,
\* so a failed step neither adds, replaces nor removes one.
C22_ContextOnSuccessOnly ==
    \A c \in Callers :
        IsAnyWorkflow(c) =>
            LET ctx == workflow_context[c] IN
            /\ \A a \in DOMAIN ctx :
                 /\ ctx[a].success
                 /\ SucceededWith(c, a) # {}
                 /\ ctx[a] = HandleResult("success",
                        call[c].workflow[SetMax(SucceededWith(c, a))].task)
            /\ call[c].mode \in {"sequential", "conditional"} =>
                 DOMAIN ctx = {a \in AgentType : SucceededWith(c, a) # {}}

\* a success of monitoring, overwritten by a later one, then a failure
C22_Witness ==
    \E c \in Callers :
        /\ IsWorkflow(c, "sequential") /\ HasResults(c)
        /\ Len(call[c].workflow) = 3
        /\ \A i \in 1..3 : call[c].workflow[i].agent = "monitoring"
        /\ SucceededSteps(c) = {1, 2}
        /\ \E k \in CallsOfStep(c, 3) : handle_calls[k].outcome = "failure"
        /\ workflow_context[c]["monitoring"].data = 2

(*------------------------------- C23 -------------------------------------*)
\* C23: every returned workflow result has successful_steps <= len(results)
\* <= total_steps, under every mode and whatever the steps did.
C23_CountsOrdered ==
    \A c \in Callers :
        (IsAnyWorkflow(c) /\ HasResults(c)) =>
            /\ ret[c].value.successful_steps <= Len(ret[c].value.results)
            /\ Len(ret[c].value.results) <= ret[c].value.total_steps
            /\ ret[c].value.total_steps = Len(call[c].workflow)

\* a skip and a failure: 1 < 2 < 3
C23_Witness ==
    \E c \in Callers :
        /\ IsWorkflow(c, "conditional") /\ HasResults(c)
        /\ ret[c].value.successful_steps = 1
        /\ Len(ret[c].value.results) = 2
        /\ ret[c].value.total_steps = 3

(*------------------------------- C24 -------------------------------------*)
IsEvaluation(c, type) ==
    /\ call[c].op = "_evaluate_condition"
    /\ call[c].condition.type = type

\* C24: an agent_success condition is true exactly when the context has an
\* entry for the agent and that entry's success is true; without an entry
\* it is false, and the evaluation returns (nothing is raised).
C24_AgentSuccess ==
    \A c \in Callers :
        IsEvaluation(c, "agent_success") =>
            LET agent == call[c].condition.agent
                ctx   == call[c].context
            IN  /\ ret[c].kind = "return"
                /\ ret[c].value \in BOOLEAN
                /\ ret[c].value <=>
                     (agent \in DOMAIN ctx /\ ctx[agent].success = TRUE)
                /\ agent \notin DOMAIN ctx => ret[c].value = FALSE

\* evaluated for an agent that has no entry while another one has
C24_Witness ==
    \E c \in Callers :
        /\ IsEvaluation(c, "agent_success")
        /\ call[c].condition.agent = "sop"
        /\ DOMAIN call[c].context = {"monitoring"}
        /\ ret[c].value = FALSE

(*------------------------------- C25 -------------------------------------*)
\* the result map holds the key
HasField(result, field) ==
    \/ field \in {"success", "data"}
    \/ field = "error" /\ result.error # NoKey
    \/ field = "agent_type" /\ result.agent_type # NoKey

\* C25: a field_equals condition is true exactly when the context has an
\* entry for the agent, the entry has the field, and the field's value is
\* the given value, of the same type (1 and true are not equal).
C25_FieldEqualsTyped ==
    \A c \in Callers :
        IsEvaluation(c, "field_equals") =>
            LET cond == call[c].condition
                ctx  == call[c].context
            IN  ret[c].value <=>
                    /\ cond.agent \in DOMAIN ctx
                    /\ HasField(ctx[cond.agent], cond.field)
                    /\ DictGet(ctx[cond.agent], cond.field) = cond.value

(*------------------------------- C26 -------------------------------------*)
KnownKinds == {"agent_success", "field_equals"}

\* C26: a condition of an unknown kind is true: in conditional mode a step
\* gated by a condition whose type is neither agent_success nor
\* field_equals is dispatched whenever the loop comes to it, whatever the
\* context holds.
C26_UnknownKindRuns ==
    \A c \in Callers :
        IsWorkflow(c, "conditional") =>
            /\ \A i \in Passed(c) :
                 call[c].workflow[i].condition.type \notin KnownKinds \cup {"none"}
                    => /\ CallsOfStep(c, i) # {}
                       /\ \E n \in 1..Len(results[c]) : results[c][n].step = i
            /\ pc[c] = "done" => idx[c] = Len(call[c].workflow) + 1

\* monitoring failed, and the step gated by the unknown kind still ran
C26_Witness ==
    \E c \in Callers :
        /\ IsWorkflow(c, "conditional") /\ HasResults(c)
        /\ Len(call[c].workflow) = 2
        /\ call[c].workflow[1].agent = "monitoring"
        /\ call[c].workflow[2].condition = UnknownKind
        /\ workflow_context[c] = EmptyCtx
        /\ CallsOfStep(c, 2) # {}
        /\ Len(ret[c].value.results) = 2

(*------------------------------- C27 -------------------------------------*)
\* C27: the registry holds one handle, its own, for each of the eight agent
\* types and for nothing else, in every state: no operation (execute_task,
\* workflow, scenario, read of the status or of the history) adds, removes
\* or replaces a handle.
C27_RegistryFixed ==
    /\ DOMAIN agents =
          {"report", "monitoring", "its", "db_extract", "change_mgmt",
           "biz_support", "sop", "infra"}
    /\ Cardinality(DOMAIN agents) = 8
    /\ \A a \in DOMAIN agents : agents[a] = a
    /\ \A a, b \in DOMAIN agents : agents[a] = agents[b] => a = b

\* after a direct call, a scenario and a read of the history
C27_Witness ==
    /\ IsScenario("c1") /\ pc["c1"] = "done"
    /\ call["c2"].op = "get_execution_history"
    /\ Len(execution_history) >= 3
    /\ \E h \in 1..Len(execution_history) :
          execution_history[h].agent_type = "monitoring"
    /\ Cardinality(DOMAIN agents) = 8

(*------------------------------- C28 -------------------------------------*)
\* C28: the task maps and the steps handed to orchestrate_workflow are left
\* as they were passed in: no key is added to, changed in or removed from a
\* task.
C28_TasksUntouched ==
    \A c \in Callers :
        IsAnyWorkflow(c) => tasks[c] = FreshTasks(call[c].workflow)

(*------------------------------- C29 -------------------------------------*)
IsOrdered(c) ==
    IsWorkflow(c, "sequential") \/ IsWorkflow(c, "conditional")

\* C29: sequential and conditional mode dispatch in total order: the
\* handles are called in workflow order, a step is dispatched only when the
\* handle call before it is over, and as long as a handle call has not
\* returned no later step is dispatched and the workflow does not return.
C29_TotalOrder ==
    \A c \in Callers :
        IsOrdered(c) =>
            /\ \A k1, k2 \in CallsOf(c) :
                 k1 < k2 =>
                    /\ handle_calls[k1].task < handle_calls[k2].task
                    /\ handle_calls[k1].outcome # "pending"
            /\ \A k \in CallsOf(c) :
                 handle_calls[k].outcome = "pending" =>
                    /\ pc[c] \in {"seq_await", "cond_await"}
                    /\ ret[c] = NoReturn
                    /\ idx[c] = handle_calls[k].task
                    /\ \A j \in CallsOf(c) :
                         handle_calls[j].task <= handle_calls[k].task

\* the third step is waiting for its handle, the two before it are over
C29_Witness ==
    \E c \in Callers :
        /\ IsWorkflow(c, "conditional")
        /\ pc[c] = "cond_await"
        /\ idx[c] = 3
        /\ Cardinality(CallsOf(c)) = 3
        /\ \E k \in CallsOfStep(c, 3) : handle_calls[k].outcome = "pending"
        /\ \E k \in CallsOfStep(c, 1) : handle_calls[k].outcome = "failure"

(*------------------------------- C30 -------------------------------------*)
\* C30: there is no retry: within one workflow run the handle of a step is
\* called at most once, also when the call failed or raised.
C30_NoRetry ==
    \A c \in Callers :
        IsAnyWorkflow(c) =>
            \A i \in 1..Len(call[c].workflow) :
                Cardinality(CallsOfStep(c, i)) <= 1

\* every step failed or raised and the workflow is over
C30_Witness ==
    \E c \in Callers :
        /\ IsAnyWorkflow(c) /\ HasResults(c)
        /\ Len(call[c].workflow) = 3
        /\ Cardinality(FailedCalls(c)) = 3
        /\ \E k \in CallsOfStep(c, 1) : handle_calls[k].outcome = "raise"
        /\ \A i \in 1..3 : Cardinality(CallsOfStep(c, i)) = 1

(*------------------------------- C31 -------------------------------------*)
\* the workflow result holds no failed step whose stop_on_failure is set
NoStoppingFailure(c) ==
    \A n \in 1..Len(ret[c].value.results) :
        LET r == ret[c].value.results[n] IN
        r.result.success \/ ~call[c].workflow[r.step].stop_on_failure

\* C31: in sequential mode a failed step whose stop_on_failure is false or
\* absent does not end the workflow: when the workflow returns its result
\* and no failed step had the flag set, every step was dispatched, once and
\* in workflow order, and results has one entry per step, in step order.
C31_FailureDoesNotStop ==
    \A c \in Callers :
        (IsWorkflow(c, "sequential") /\ HasResults(c) /\ NoStoppingFailure(c))
        => LET wf == call[c].workflow IN
           /\ Len(ret[c].value.results) = Len(wf)
           /\ \A i \in 1..Len(wf) :
                /\ ret[c].value.results[i].step = i
                /\ Cardinality(CallsOfStep(c, i)) = 1
           /\ \A k1, k2 \in CallsOf(c) :
                k1 < k2 => handle_calls[k1].task < handle_calls[k2].task

\* the first step failed and the second raised, neither with the flag set,
\* and the third step ran all the same
C31_Witness ==
    \E c \in Callers :
        /\ IsWorkflow(c, "sequential") /\ HasResults(c)
        /\ Len(call[c].workflow) = 3
        /\ \A i \in 1..3 : ~call[c].workflow[i].stop_on_failure
        /\ \E k \in CallsOfStep(c, 1) : handle_calls[k].outcome = "failure"
        /\ \E k \in CallsOfStep(c, 2) : handle_calls[k].outcome = "raise"
        /\ \E k \in CallsOfStep(c, 3) : handle_calls[k].outcome = "success"
        /\ Len(ret[c].value.results) = 3
        /\ ~ret[c].value.success

(*------------------------------- C32 -------------------------------------*)
\* C32: in parallel mode results has one entry per workflow step and entry
\* i is the outcome of step i (its name, its agent, and what the handle
\* called for step i reported), in whatever order the sibling handle calls
\* were over.
C32_ResultsInStepOrder ==
    \A c \in Callers :
        (IsWorkflow(c, "parallel") /\ HasResults(c)) =>
            LET wf  == call[c].workflow
                res == ret[c].value.results
            IN  /\ Len(res) = Len(wf)
                /\ \A i \in 1..Len(wf) :
                     /\ res[i].step = wf[i].name
                     /\ res[i].agent = wf[i].agent
                     /\ \A k \in CallsOfStep(c, i) :
                          LET o == handle_calls[k].outcome IN
                          /\ res[i].result.success = (o = "success")
                          /\ o # "raise" => res[i].result.data = wf[i].task.type
                          /\ o = "raise" =>
                                res[i].result.error = HandleExceptionMsg

\* the handle of the third step was over first and the one of the first
\* step last, each with another outcome
C32_Witness ==
    \E c \in Callers :
        /\ IsWorkflow(c, "parallel") /\ HasResults(c)
        /\ Len(call[c].workflow) = 3
        /\ Len(execution_history) = 2
        /\ execution_history[1].task_type = 3
        /\ execution_history[1].success
        /\ execution_history[2].task_type = 1
        /\ ~execution_history[2].success
        /\ \E k \in CallsOfStep(c, 2) : handle_calls[k].outcome = "raise"
        /\ ret[c].value.results[3].result.success
        /\ ~ret[c].value.results[1].result.success

(*------------------------------- C36 -------------------------------------*)
\* C36: a workflow run under the DELEGATED mode, which has no branch,
\* dispatches no step and adds no record to the history, and yet returns
\* success = true with no results, no successful step and total_steps equal
\* to the number of steps asked for.
C36_DelegatedRunsNothing ==
    \A c \in Callers :
        IsWorkflow(c, "delegated") =>
            /\ pc[c] = "done"
            /\ CallsOf(c) = {}
            /\ execution_history = <<>>
            /\ ret[c].kind = "return"
            /\ ret[c].value.success
            /\ ret[c].value.mode = "delegated"
            /\ ret[c].value.results = <<>>
            /\ ret[c].value.successful_steps = 0
            /\ ret[c].value.total_steps = Len(call[c].workflow)
            /\ ret[c].value.workflow_context = EmptyCtx

\* three steps were asked for, one of them with no agent type
C36_Witness ==
    \E c \in Callers :
        /\ IsWorkflow(c, "delegated")
        /\ Len(call[c].workflow) = 3
        /\ Malformed(call[c].workflow)
        /\ ret[c].value.success
        /\ ret[c].value.total_steps = 3

(*------------------------------- C34 -------------------------------------*)
(***************************************************************************)
(* Two workflow invocations on the one orchestrator (lines 515-524), each  *)
(* suspended only where it awaits a handle                                 *)
(***************************************************************************)
\* the agent type a caller's workflow goes to: the records of the two
\* workflows can be told apart
ConcAgent(c) == IF c = "c1" THEN "monitoring" ELSE "sop"

ConcWorkflows(c) ==
    UNION {WorkflowsOfLen(n, {ConcAgent(c)}, {FALSE}, {NoCondition}) :
           n \in 0..MaxOpsSteps}

OrchestrateConcSequential(c) ==
    /\ pc[c] = "idle"
    /\ \E wf \in ConcWorkflows(c) : OrchestrateSequentialWith(c, wf)

OrchestrateConcParallel(c) ==
    /\ pc[c] = "idle"
    /\ \E wf \in ConcWorkflows(c) : OrchestrateParallelWith(c, wf)

\* the handles of the first workflow return or raise, those of the second
\* return
NextConc ==
    \/ OrchestrateConcSequential("c1")
    \/ OrchestrateConcSequential("c2")
    \/ OrchestrateConcParallel("c2")
    \/ \E o \in Outcomes : SeqComplete("c1", o)
    \/ \E o \in ScenarioOutcomes : SeqComplete("c2", o)
    \/ ParStart("c2")
    \/ \E i \in 1..MaxOpsSteps, o \in ScenarioOutcomes :
          ParComplete("c2", i, o)
    \/ ParCollect("c2")

SpecConc == Init /\ [][NextConc]_vars

\* the handle calls of caller c that returned a result map
ReturnedCalls(c) ==
    {k \in CallsOf(c) : handle_calls[k].outcome \in {"success", "failure"}}

\* the records the history holds of the workflow of caller c, in order
HistoryOf(c) ==
    SelectSeq(execution_history, LAMBDA r : r.agent_type = ConcAgent(c))

\* C34: with workflow invocations interleaved at their handle calls no
\* history update is lost or duplicated: the history holds exactly one
\* record for every handle call that returned, carrying its task and its
\* outcome, and the records of a sequential workflow are in step order.
C34_NoLostUpdate ==
    /\ Len(execution_history) =
          Cardinality({k \in 1..Len(handle_calls) :
                          handle_calls[k].outcome \in {"success", "failure"}})
    /\ \A c \in Callers :
          IsAnyWorkflow(c) =>
             LET recs == HistoryOf(c) IN
             /\ Len(recs) = Cardinality(ReturnedCalls(c))
             /\ \A k \in ReturnedCalls(c) :
                  Cardinality({n \in 1..Len(recs) :
                     /\ recs[n].task_type = handle_calls[k].task
                     /\ recs[n].success =
                           (handle_calls[k].outcome = "success")}) = 1
             /\ IsWorkflow(c, "sequential") =>
                  \A n, m \in 1..Len(recs) :
                      n < m => recs[n].task_type < recs[m].task_type

\* two sequential workflows took turns: the records alternate
C34_Witness ==
    /\ IsWorkflow("c1", "sequential") /\ HasResults("c1")
    /\ IsWorkflow("c2", "sequential") /\ HasResults("c2")
    /\ Len(execution_history) = 4
    /\ execution_history[1].agent_type = "sop"
    /\ execution_history[2].agent_type = "monitoring"
    /\ execution_history[3].agent_type = "sop"
    /\ execution_history[4].agent_type = "monitoring"
    /\ ~execution_history[2].success
    /\ execution_history[4].success

(*------------------------------- C35 -------------------------------------*)
(***************************************************************************)
(* orchestrate_workflow with handles that all come back: every handle call *)
(* that is awaited returns or raises in the end, and the event loop runs   *)
(* every coroutine that is ready (a gathered coroutine that has not        *)
(* started, a gather whose coroutines are all over)                        *)
(***************************************************************************)
LiveWorkflows(mode) ==
    UNION {WorkflowsOfLen(n, InputAgents,
                          IF mode = "sequential" THEN BOOLEAN ELSE {FALSE},
                          IF mode = "conditional"
                          THEN InputConditions ELSE {NoCondition}) :
           n \in 0..MaxOpsSteps}

OrchestrateLive(c) ==
    /\ pc[c] = "idle"
    /\ \/ \E wf \in LiveWorkflows("sequential") :
             OrchestrateSequentialWith(c, wf)
       \/ \E wf \in LiveWorkflows("parallel") :
             OrchestrateParallelWith(c, wf)
       \/ \E wf \in LiveWorkflows("conditional") :
             OrchestrateConditionalWith(c, wf)

NextLive ==
    \/ OrchestrateLive("c1")
    \/ \E o \in Outcomes : SeqComplete("c1", o)
    \/ ParStart("c1")
    \/ \E i \in 1..MaxOpsSteps, o \in Outcomes : ParComplete("c1", i, o)
    \/ ParCollect("c1")
    \/ \E o \in Outcomes : CondComplete("c1", o)

SpecLive ==
    /\ Init /\ [][NextLive]_vars
    /\ WF_vars(\E o \in Outcomes : SeqComplete("c1", o))
    /\ WF_vars(\E o \in Outcomes : CondComplete("c1", o))
    /\ WF_vars(ParStart("c1"))
    /\ \A i \in 1..MaxOpsSteps :
          WF_vars(\E o \in Outcomes : ParComplete("c1", i, o))
    /\ WF_vars(ParCollect("c1"))

\* a workflow was started under one of the modes that dispatch
Dispatching(c) ==
    IsWorkflow(c, "sequential") \/ IsWorkflow(c, "parallel")
        \/ IsWorkflow(c, "conditional")

\* the caller was handed the outcome of its invocation
Returned(c) == pc[c] = "done" /\ ret[c].kind = "return"

\* C35: orchestrate_workflow terminates: under sequential, parallel and
\* conditional mode, when every dispatched handle call returns or raises
\* in the end, the workflow hands a result back to its caller, and it never
\* makes more dispatches than the workflow has steps.
C35_Terminates ==
    /\ [](\A c \in Callers :
            Dispatching(c) =>
                Cardinality(CallsOf(c)) <= Len(call[c].workflow))
    /\ \A c \in Callers : Dispatching(c) ~> Returned(c)

\* a conditional workflow returned after as many dispatches as it has
\* steps, some of them failed or raised
C35_Witness ==
    \E c \in Callers :
        /\ IsWorkflow(c, "conditional") /\ Returned(c)
        /\ Len(call[c].workflow) = MaxOpsSteps
        /\ Cardinality(CallsOf(c)) = MaxOpsSteps
        /\ \E k \in CallsOfStep(c, 1) : handle_calls[k].outcome = "failure"
        /\ \E k \in CallsOfStep(c, 2) : handle_calls[k].outcome = "raise"

(*------------------------------- C33 -------------------------------------*)
(***************************************************************************)
(* A workflow definition is run, and run again with the same step and task *)
(* maps, while another caller runs a workflow of its own                   *)
(***************************************************************************)
\* the task maps as a run that is over leaves them: a "context" key it set
\* stays, bound to a dict that nothing writes to any more
Detached(tks) ==
    [j \in DOMAIN tks |-> [tks[j] EXCEPT !.context.live = FALSE]]

RerunWorkflows ==
    UNION {WorkflowsOfLen(n, {"monitoring", "sop"}, {FALSE}, {NoCondition}) :
           n \in 0..MaxOpsSteps}

OrchestrateRerunnable(c) ==
    /\ pc[c] = "idle"
    /\ \E wf \in RerunWorkflows : OrchestrateSequentialWith(c, wf)

\* orchestrate_workflow is called once more with the list it was called with
\* before: lines 157-171 with the task maps the earlier run left behind
RerunSequential(c) ==
    /\ pc[c] = "done"
    /\ IsWorkflow(c, "sequential")
    /\ call[c].inv < MaxRuns
    /\ ncalls' = ncalls + 1
    /\ call' = [call EXCEPT ![c].inv = ncalls + 1]
    /\ SeqLoop(c, ncalls + 1, call[c].workflow, 1, <<>>, EmptyCtx,
               Detached(tasks[c]), handle_calls)
    /\ UNCHANGED <<wsvars, agents, execution_history, par>>

NextRerun ==
    \/ OrchestrateRerunnable("c1")
    \/ RerunSequential("c1")
    \/ \E o \in Outcomes : SeqComplete("c1", o)
    \/ OrchestrateConcSequential("c2")
    \/ \E o \in ScenarioOutcomes : SeqComplete("c2", o)

SpecRerun == Init /\ [][NextRerun]_vars

\* C33: the context is private to one workflow run: whatever the context
\* handed to a dispatched step holds for an agent type is the result of an
\* earlier step of the same run that succeeded, also with another workflow
\* running on the orchestrator and also in a later run of the same
\* workflow definition.
C33_ContextPrivate ==
    \A c \in Callers :
        IsWorkflow(c, "sequential") =>
            \A k \in CallsOf(c) :
                \A a \in DOMAIN handle_calls[k].context :
                    SucceededBefore(c, handle_calls[k].task, a) # {}

(***************************************************************************)
(* ConnectionManager, api/websocket.py lines 16-96                         *)
(***************************************************************************)
Range(list) == {list[i] : i \in 1..Len(list)}

\* list.remove(x): the first occurrence of x goes, the others stay
RECURSIVE Remove(_, _)
Remove(list, x) ==
    IF list = <<>> THEN <<>>
    ELSE IF Head(list) = x THEN Tail(list)
    ELSE <<Head(list)>> \o Remove(Tail(list), x)

\* lines 31-32
ConnectionsWithout(connections, websocket) ==
    IF websocket \in Range(connections)
    THEN Remove(connections, websocket)
    ELSE connections

\* lines 35-37
SubscriptionsWithout(subs, websocket) ==
    [t \in DOMAIN subs |->
        IF websocket \in Range(subs[t])
        THEN Remove(subs[t], websocket)
        ELSE subs[t]]

\* lines 84-88
Subscribed(subs, websocket, topic) ==
    LET had == IF topic \in DOMAIN subs THEN subs[topic] ELSE <<>> IN
    [t \in DOMAIN subs \cup {topic} |->
        IF t # topic THEN subs[t]
        ELSE IF websocket \in Range(had) THEN had
        ELSE Append(had, websocket)]

\* lines 94-95
Unsubscribed(subs, websocket, topic) ==
    IF topic \in DOMAIN subs /\ websocket \in Range(subs[topic])
    THEN [subs EXCEPT ![topic] = Remove(@, websocket)]
    ELSE subs

\* connect, lines 23-27: the await of websocket.accept() is over; when it
\* returned the websocket is appended, when it raised connect is left
Connect(websocket, accepted) ==
    /\ Len(active_connections) < MaxConnections
    /\ IF accepted
       THEN /\ active_connections' = Append(active_connections, websocket)
            /\ gone' = gone \ {websocket}
       ELSE UNCHANGED <<active_connections, gone>>
    /\ UNCHANGED <<subscriptions, sender, attempts>>

\* disconnect, lines 29-39
Disconnect(websocket) ==
    /\ active_connections' =
           ConnectionsWithout(active_connections, websocket)
    /\ subscriptions' = SubscriptionsWithout(subscriptions, websocket)
    /\ gone' = gone \cup {websocket}
    /\ UNCHANGED <<sender, attempts>>

\* subscribe, lines 82-90
Subscribe(websocket, topic) ==
    /\ subscriptions' = Subscribed(subscriptions, websocket, topic)
    /\ gone' = gone \ {websocket}
    /\ UNCHANGED <<active_connections, sender, attempts>>

\* unsubscribe, lines 92-96
Unsubscribe(websocket, topic) ==
    /\ subscriptions' = Unsubscribed(subscriptions, websocket, topic)
    /\ UNCHANGED <<active_connections, sender, attempts, gone>>

\* the entry of attempts for a send_text to websocket `to`
Attempt(n, to) == [n |-> n, to |-> to, gone |-> (to \in gone)]

\* lines 60-61: disconnect is called for every websocket a send failed for
RECURSIVE ConnectionsAfterCleanup(_, _)
ConnectionsAfterCleanup(connections, failed) ==
    IF failed = <<>> THEN connections
    ELSE ConnectionsAfterCleanup(ConnectionsWithout(connections, Head(failed)),
                                 Tail(failed))

RECURSIVE SubscriptionsAfterCleanup(_, _)
SubscriptionsAfterCleanup(subs, failed) ==
    IF failed = <<>> THEN subs
    ELSE SubscriptionsAfterCleanup(SubscriptionsWithout(subs, Head(failed)),
                                   Tail(failed))

\* lines 78-80: the websockets a send failed for leave the topic's list
RECURSIVE TopicAfterCleanup(_, _, _)
TopicAfterCleanup(subs, topic, failed) ==
    IF failed = <<>> THEN subs
    ELSE TopicAfterCleanup(Unsubscribed(subs, Head(failed), topic), topic,
                           Tail(failed))

\* the next item of a list iterator that has handed out `pos` items: the
\* iterator holds an index into the list as it is now
HasNext(list, pos) == pos < Len(list)
NextItem(list, pos) == list[pos + 1]

\* the for loop of broadcast, lines 52-61, from its head to the next await
\* of send_text or, past the last item, through the clean-up to the return
BroadcastLoop(n, pos, failed, initial) ==
    IF HasNext(active_connections, pos)
    THEN LET connection == NextItem(active_connections, pos) IN
         /\ sender' = [op |-> "broadcast", pc |-> "sending", n |-> n,
                       topic |-> NoKey, pos |-> pos + 1,
                       target |-> connection, disconnected |-> failed,
                       initial |-> initial]
         /\ attempts' = Append(attempts, Attempt(n, connection))
         /\ UNCHANGED <<active_connections, subscriptions, gone>>
    ELSE /\ sender' = [op |-> "broadcast", pc |-> "done", n |-> n,
                       topic |-> NoKey, pos |-> pos, target |-> NoKey,
                       disconnected |-> failed, initial |-> initial]
         /\ active_connections' =
                ConnectionsAfterCleanup(active_connections, failed)
         /\ subscriptions' = SubscriptionsAfterCleanup(subscriptions, failed)
         /\ gone' = gone \cup Range(failed)
         /\ UNCHANGED attempts

\* broadcast is called: lines 50-54
BroadcastBegin ==
    /\ sender.pc \in {"idle", "done"}
    /\ sender.n < MaxSends
    /\ BroadcastLoop(sender.n + 1, 0, <<>>, Range(active_connections))

\* the send_text the broadcast waits for is over, by return or by exception:
\* lines 54-61
BroadcastResume(raised) ==
    /\ sender.op = "broadcast"
    /\ sender.pc = "sending"
    /\ BroadcastLoop(sender.n, sender.pos,
                     IF raised THEN Append(sender.disconnected, sender.target)
                     ELSE sender.disconnected,
                     sender.initial)

\* the for loop of send_to_topic, lines 70-80
TopicLoop(n, topic, pos, failed, initial) ==
    IF HasNext(subscriptions[topic], pos)
    THEN LET connection == NextItem(subscriptions[topic], pos) IN
         /\ sender' = [op |-> "send_to_topic", pc |-> "sending", n |-> n,
                       topic |-> topic, pos |-> pos + 1,
                       target |-> connection, disconnected |-> failed,
                       initial |-> initial]
         /\ attempts' = Append(attempts, Attempt(n, connection))
         /\ UNCHANGED <<active_connections, subscriptions, gone>>
    ELSE /\ sender' = [op |-> "send_to_topic", pc |-> "done", n |-> n,
                       topic |-> topic, pos |-> pos, target |-> NoKey,
                       disconnected |-> failed, initial |-> initial]
         /\ subscriptions' = TopicAfterCleanup(subscriptions, topic, failed)
         /\ UNCHANGED <<active_connections, attempts, gone>>

\* send_to_topic is called: lines 65-72
SendToTopicBegin(topic) ==
    /\ sender.pc \in {"idle", "done"}
    /\ sender.n < MaxSends
    /\ IF topic \notin DOMAIN subscriptions
       THEN /\ sender' = [op |-> "send_to_topic", pc |-> "done",
                          n |-> sender.n + 1, topic |-> topic, pos |-> 0,
                          target |-> NoKey, disconnected |-> <<>>,
                          initial |-> {}]
            /\ UNCHANGED <<active_connections, subscriptions, attempts, gone>>
       ELSE TopicLoop(sender.n + 1, topic, 0, <<>>,
                      Range(subscriptions[topic]))

\* the send_text send_to_topic waits for is over: lines 72-80
SendToTopicResume(raised) ==
    /\ sender.op = "send_to_topic"
    /\ sender.pc = "sending"
    /\ TopicLoop(sender.n, sender.topic, sender.pos,
                 IF raised THEN Append(sender.disconnected, sender.target)
                 ELSE sender.disconnected,
                 sender.initial)

(***************************************************************************)
(* The methods of the manager called in any order, for any websocket       *)
(***************************************************************************)
NextManager ==
    \/ \E w \in Sockets, accepted \in BOOLEAN :
          Connect(w, accepted) /\ UNCHANGED <<omvars, endpoint>>
    \/ \E w \in Sockets : Disconnect(w) /\ UNCHANGED <<omvars, endpoint>>
    \/ \E w \in Sockets, t \in Topics :
          Subscribe(w, t) /\ UNCHANGED <<omvars, endpoint>>
    \/ \E w \in Sockets, t \in Topics :
          Unsubscribe(w, t) /\ UNCHANGED <<omvars, endpoint>>
    \/ BroadcastBegin /\ UNCHANGED <<omvars, endpoint>>
    \/ \E raised \in BOOLEAN :
          BroadcastResume(raised) /\ UNCHANGED <<omvars, endpoint>>
    \/ \E t \in Topics : SendToTopicBegin(t) /\ UNCHANGED <<omvars, endpoint>>
    \/ \E raised \in BOOLEAN :
          SendToTopicResume(raised) /\ UNCHANGED <<omvars, endpoint>>

SpecManager == Init /\ [][NextManager]_vars

EndpointConnect(w, accepted) ==
    /\ endpoint[w] = "new"
    /\ Connect(w, accepted)
    /\ endpoint' = [endpoint EXCEPT ![w] =
                       IF accepted THEN "receiving" ELSE "closed"]
    /\ UNCHANGED omvars

\* lines 117-129: a subscribe message came in
EndpointSubscribe(w, topic) ==
    /\ endpoint[w] = "receiving"
    /\ Subscribe(w, topic)
    /\ UNCHANGED <<omvars, endpoint>>

\* lines 117-138: an unsubscribe message came in
EndpointUnsubscribe(w, topic) ==
    /\ endpoint[w] = "receiving"
    /\ Unsubscribe(w, topic)
    /\ UNCHANGED <<omvars, endpoint>>

\* lines 152-156: receive_text raised, the client is gone
EndpointDisconnect(w) ==
    /\ endpoint[w] = "receiving"
    /\ Disconnect(w)
    /\ endpoint' = [endpoint EXCEPT ![w] = "closed"]
    /\ UNCHANGED omvars

NextEndpoint ==
    \/ \E w \in Sockets, accepted \in BOOLEAN : EndpointConnect(w, accepted)
    \/ \E w \in Sockets, t \in Topics : EndpointSubscribe(w, t)
    \/ \E w \in Sockets, t \in Topics : EndpointUnsubscribe(w, t)
    \/ \E w \in Sockets : EndpointDisconnect(w)
    \/ BroadcastBegin /\ UNCHANGED <<omvars, endpoint>>
    \/ \E raised \in BOOLEAN :
          BroadcastResume(raised) /\ UNCHANGED <<omvars, endpoint>>
    \/ \E t \in Topics : SendToTopicBegin(t) /\ UNCHANGED <<omvars, endpoint>>
    \/ \E raised \in BOOLEAN :
          SendToTopicResume(raised) /\ UNCHANGED <<omvars, endpoint>>

SpecEndpoint == Init /\ [][NextEndpoint]_vars

(*------------------------------- C38 -------------------------------------*)
\* the sender called send_text on websocket w in its run n
Attempted(n, w) ==
    \E k \in 1..Len(attempts) : attempts[k].n = n /\ attempts[k].to = w

\* C38: a broadcast that is over has called send_text on every client that
\* was connected when it began and whose endpoint has not disconnected it,
\* also when other clients were disconnected while the broadcast waited in
\* a send.
C38_NoClientSkipped ==
    (sender.op = "broadcast" /\ sender.pc = "done") =>
        \A w \in sender.initial :
            endpoint[w] = "receiving" => Attempted(sender.n, w)

====
